---------------------------- MODULE Spec2Model ----------------------------
(***************************************************************************)
(* A model of the OpenDRIVE importer NIImporter_OpenDrive (netimport):     *)
(* loadNetwork's node building, edge building, link collection,            *)
(* connection flattening (buildConnectionsToOuter) and connection setting, *)
(* together with revisitLaneSections and setLaneAttributes.                *)
(*                                                                         *)
(* Lengths are integers in units of 0.01 m.  Road identifiers are atomic   *)
(* strings without a leading "-"; node and edge identifiers are sequences  *)
(* of string tokens.  Polylines are sequences of positions on a line.      *)
(* Internal shapes (opendrive.internal-shapes) and traffic lights are not  *)
(* modelled.  The edge container ignores no edge (default options).        *)
(***************************************************************************)
EXTENDS Integers, Sequences, FiniteSets, TLC

VARIABLES
    edges,          \* road id -> OpenDriveEdge record (the road table)
    pc,             \* position of loadNetwork
    nodeCont,       \* NBNodeCont: set of node ids
    edgeCont,       \* NBEdgeCont: edge id -> [from, to, numLanes, geom, road]
    l2l,            \* lane-to-lane connections added to output edges
    roadIdx,        \* position of the edge-building loop over outerEdges
    walkIdx,        \* position of the loop over all connections (line 554)
    connections2,   \* std::vector<Connection> connections2
    stack,          \* activation records of buildConnectionsToOuter
    seen,           \* std::set<Connection> seen of the current walk
    warnings,       \* warnings written so far
    ls,             \* lane sections of the road handled by revisitLaneSections
    lsInner,        \* whether that road is an inner road
    lsIn,           \* the lane sections as parsed (input of revisitLaneSections)
    lane,           \* input and result of setLaneAttributes
    args,           \* arguments of a function called on its own
    result,         \* what that function returned
    myImportAllTypes \* option opendrive.import-all-lanes

vars == <<edges, pc, nodeCont, edgeCont, l2l, roadIdx, walkIdx, connections2,
          stack, seen, warnings, ls, lsInner, lsIn, lane, args, result,
          myImportAllTypes>>

netVars == <<edges, pc, nodeCont, edgeCont, l2l, roadIdx, walkIdx,
             connections2, stack, seen, warnings, myImportAllTypes>>

otherVars == <<ls, lsInner, lsIn, lane, args, result>>

-----------------------------------------------------------------------------
(* Bounds of the model *)

MaxConns == 4

-----------------------------------------------------------------------------
(* Program constants and enumerations *)

UNSET_CONNECTION == 100000

\* POSITION_EPS is 0.1 m
POSITION_EPS == 10

OPENDRIVE_CP_START == "start"
OPENDRIVE_CP_END == "end"
OPENDRIVE_LT_SUCCESSOR == "successor"
OPENDRIVE_LT_PREDECESSOR == "predecessor"
OPENDRIVE_ET_ROAD == "road"
OPENDRIVE_ET_JUNCTION == "junction"

\* nullptr of an NBNode*: no node id
NULL == <<>>

\* std::map<std::string, ...> iterates in key order; the order of the ids used
RoadOrder == <<"A", "B", "C", "W", "X", "Y", "Z">>

RoadRank(r) == CHOOSE i \in 1..Len(RoadOrder) : RoadOrder[i] = r

Max2(a, b) == IF a >= b THEN a ELSE b
Min2(a, b) == IF a <= b THEN a ELSE b

-----------------------------------------------------------------------------
(* Connection: operator<, std::set semantics *)

Connection(fe, fl, fcp, te, tl, tcp, all) ==
    [fromEdge |-> fe, fromLane |-> fl, fromCP |-> fcp,
     toEdge |-> te, toLane |-> tl, toCP |-> tcp, all |-> all,
     origID |-> "", origLane |-> 0, chain |-> <<>>, inLanes |-> <<>>, outLanes |-> <<>>]

\* operator<(Connection, Connection)
ConnLess(c1, c2) ==
    IF c1.fromEdge # c2.fromEdge THEN RoadRank(c1.fromEdge) < RoadRank(c2.fromEdge)
    ELSE IF c1.toEdge # c2.toEdge THEN RoadRank(c1.toEdge) < RoadRank(c2.toEdge)
    ELSE IF c1.fromLane # c2.fromLane THEN c1.fromLane < c2.fromLane
    ELSE c1.toLane < c2.toLane

\* equivalence under operator<: neither is less than the other
ConnEquiv(c1, c2) == ~ConnLess(c1, c2) /\ ~ConnLess(c2, c1)

\* std::set<Connection>::count
SetCount(S, c) == IF \E d \in S : ConnEquiv(d, c) THEN 1 ELSE 0

\* std::set<Connection>::insert: an equivalent element already there is kept
SetInsert(S, c) == IF SetCount(S, c) = 0 THEN S \cup {c} ELSE S

\* iteration order of a std::set<Connection>
RECURSIVE SetOrder(_)
SetOrder(S) ==
    IF S = {} THEN <<>>
    ELSE LET m == CHOOSE c \in S : \A d \in S \ {c} : ConnLess(c, d)
         IN  <<m>> \o SetOrder(S \ {m})

-----------------------------------------------------------------------------
(* Roads *)

Roads == DOMAIN edges
innerEdges == {r \in Roads : edges[r].isInner}
outerEdges == {r \in Roads : ~edges[r].isInner}

RECURSIVE OrderedFrom(_, _)
OrderedFrom(S, i) ==
    IF i > Len(RoadOrder) THEN <<>>
    ELSE (IF RoadOrder[i] \in S THEN <<RoadOrder[i]>> ELSE <<>>) \o OrderedFrom(S, i + 1)

\* the ids of S in the iteration order of the road map
Ordered(S) == OrderedFrom(S, 1)

\* NIImporter_OpenDrive::laneSectionsConnected
RECURSIVE FollowLanes(_, _, _)
FollowLanes(lanes, k, in) ==
    IF k > Len(lanes) THEN in
    ELSE FollowLanes(lanes, k + 1, IF lanes[k].id = in THEN lanes[k].successor ELSE in)

RECURSIVE FollowSections(_, _, _)
FollowSections(secs, k, in) ==
    IF k + 1 > Len(secs) THEN in
    ELSE FollowSections(secs, k + 1,
                        FollowLanes(secs[k].left, 1, FollowLanes(secs[k].right, 1, in)))

laneSectionsConnected(edge, in, out) ==
    IF Len(edge.laneSections) = 1 THEN in = out
    ELSE FollowSections(edge.laneSections, 1, in) = out

-----------------------------------------------------------------------------
(* Lanes and lane sections *)

\* the type catalogue (NBTypeCont): known types and those marked discarded
tcKnown == {"driving", "none"}
tcDiscard == {"none"}
\* the default speed of the types, in 0.01 m/s
tcSpeed == [t \in tcKnown |-> IF t = "driving" THEN 1389 ELSE 500]

\* OpenDriveLane: speeds are the (sOffset, speed) entries in the order read,
\* speed is 0 as long as none is set
Lane(id, type, pred, succ) ==
    [id |-> id, type |-> type, predecessor |-> pred, successor |-> succ,
     speeds |-> <<>>, speed |-> 0]

Reverse(seq) == [k \in 1..Len(seq) |-> seq[Len(seq) + 1 - k]]

MapPut(m, k, v) == [x \in (DOMAIN m) \cup {k} |-> IF x = k THEN v ELSE m[x]]

\* the test of buildLaneMapping whether a lane is kept
LaneKept(l, importAll) == importAll \/ (l.type \in tcKnown /\ l.type \notin tcDiscard)

\* one loop of buildLaneMapping: laneMap[id] = sumoLane++ for the kept lanes
RECURSIVE MapLanes(_, _, _, _, _)
MapLanes(lanes, k, map, sumoLane, importAll) ==
    IF k > Len(lanes) THEN [map |-> map, n |-> sumoLane]
    ELSE IF LaneKept(lanes[k], importAll)
         THEN MapLanes(lanes, k + 1, MapPut(map, lanes[k].id, sumoLane), sumoLane + 1, importAll)
         ELSE MapLanes(lanes, k + 1, map, sumoLane, importAll)

\* buildLaneMapping that walks the right lanes as they are stored
buildLaneMappingForward(sec, importAll) ==
    LET r == MapLanes(sec.right, 1, sec.laneMap, 0, importAll)
        l == MapLanes(sec.left, 1, r.map, 0, importAll)
    IN  [sec EXCEPT !.laneMap = l.map, !.rightLaneNumber = r.n, !.leftLaneNumber = l.n]

\* OpenDriveLaneSection::buildLaneMapping: right lanes in reverse, left lanes forward
buildLaneMapping(sec, importAll) ==
    LET r == MapLanes(Reverse(sec.right), 1, sec.laneMap, 0, importAll)
        l == MapLanes(sec.left, 1, r.map, 0, importAll)
    IN  [sec EXCEPT !.laneMap = l.map, !.rightLaneNumber = r.n, !.leftLaneNumber = l.n]

\* OpenDriveLaneSection(s) followed by the lanes read and buildLaneMapping
LaneSection(s, right, left, importAll) ==
    buildLaneMapping([s |-> s, right |-> right, left |-> left, laneMap |-> <<>>,
                      rightLaneNumber |-> 0, leftLaneNumber |-> 0, sumoID |-> <<>>],
                     importAll)

\* OpenDriveEdge(id, streetName, junction, length)
Road(id, junction, length, geom, secs, links, conns) ==
    [id |-> id, junction |-> junction, isInner |-> (junction # "" /\ junction # "-1"),
     length |-> length, geom |-> geom, laneSections |-> secs, links |-> links,
     connections |-> conns, from |-> NULL, to |-> NULL]

-----------------------------------------------------------------------------
(* Node building: loadNetwork lines 213-343 *)

Link(lt, et, id, cp) ==
    [linkType |-> lt, elementType |-> et, elementID |-> id, contactPoint |-> cp]

\* the state the node-building loops work on; err: a ProcessError was thrown
NodeState(es, ns) == [edges |-> es, nodes |-> ns, err |-> FALSE]

Throw(st) == [st EXCEPT !.err = TRUE]

\* setNodeSecure without the tests of lines 1071 and 1076: the last node wins
setNodeSecureRebind(st, r, nodeID, lt) ==
    IF st.err THEN st
    ELSE IF nodeID \notin st.nodes THEN Throw(st)
    ELSE IF lt = OPENDRIVE_LT_SUCCESSOR
         THEN [st EXCEPT !.edges[r].to = nodeID]
         ELSE [st EXCEPT !.edges[r].from = nodeID]

\* NIImporter_OpenDrive::setNodeSecure
setNodeSecure(st, r, nodeID, lt) ==
    IF st.err THEN st
    ELSE IF nodeID \notin st.nodes THEN Throw(st)
    ELSE IF lt = OPENDRIVE_LT_SUCCESSOR
         THEN IF st.edges[r].to # NULL /\ st.edges[r].to # nodeID THEN Throw(st)
              ELSE [st EXCEPT !.edges[r].to = nodeID]
         ELSE IF st.edges[r].from # NULL /\ st.edges[r].from # nodeID THEN Throw(st)
              ELSE [st EXCEPT !.edges[r].from = nodeID]

\* PositionVector::operator[] with index 0 or -1 throws a ProcessError
\* ("Index out of range") on an empty polyline
IndexOutOfRange(g) == Len(g) = 0

\* lines 245-251 and 283-289: the node is built at geom[-1] or geom[0] unless
\* it is there
BuildIfMissing(st, r, nid) ==
    IF st.err \/ nid \in st.nodes THEN st
    ELSE IF IndexOutOfRange(st.edges[r].geom) THEN Throw(st)
    ELSE [st EXCEPT !.nodes = @ \cup {nid}]

\* edge2junction.find(id) != edge2junction.end()
InJunction(es, id) == id \in DOMAIN es /\ es[id].isInner

\* lines 241-261: the links of outer road r from the k-th on
RECURSIVE AssignJunctionLinks(_, _, _)
AssignJunctionLinks(st, r, k) ==
    IF st.err \/ k > Len(st.edges[r].links) THEN st
    ELSE LET l == st.edges[r].links[k]
         IN  IF l.elementType # OPENDRIVE_ET_ROAD
             THEN AssignJunctionLinks(
                      setNodeSecure(BuildIfMissing(st, r, <<l.elementID>>), r,
                                    <<l.elementID>>, l.linkType), r, k + 1)
             ELSE IF InJunction(st.edges, l.elementID)
             THEN AssignJunctionLinks(
                      setNodeSecure(st, r, <<st.edges[l.elementID].junction>>, l.linkType),
                      r, k + 1)
             ELSE AssignJunctionLinks(st, r, k + 1)

\* lines 279-282: the id of the node between two outer roads
JoinedNodeID(id1, id2) ==
    IF RoadRank(id1) < RoadRank(id2) THEN <<id2, ".", id1>> ELSE <<id1, ".", id2>>

\* lines 270-297: the links of outer road r from the k-th on
RECURSIVE AssignOuterLinks(_, _, _)
AssignOuterLinks(st, r, k) ==
    IF st.err \/ k > Len(st.edges[r].links) THEN st
    ELSE LET l == st.edges[r].links[k]
             nid == JoinedNodeID(r, l.elementID)
         IN  IF l.elementType # OPENDRIVE_ET_ROAD \/ InJunction(st.edges, l.elementID)
             THEN AssignOuterLinks(st, r, k + 1)
             ELSE AssignOuterLinks(
                      setNodeSecure(BuildIfMissing(st, r, nid), r, nid, l.linkType),
                      r, k + 1)

\* AssignFromInnerLinks with the sides exchanged: Start binds the to-node
RECURSIVE AssignFromInnerLinksSwapped(_, _, _, _)
AssignFromInnerLinksSwapped(st, r, ie, k) ==
    IF st.err \/ k > Len(st.edges[ie].links) THEN st
    ELSE LET il == st.edges[ie].links[k]
             nid == <<st.edges[ie].junction>>
         IN  IF il.elementType # OPENDRIVE_ET_ROAD \/ il.elementID # r
             THEN AssignFromInnerLinksSwapped(st, r, ie, k + 1)
             ELSE AssignFromInnerLinksSwapped(
                      setNodeSecure(st, r, nid,
                                    IF il.contactPoint = OPENDRIVE_CP_START
                                    THEN OPENDRIVE_LT_SUCCESSOR
                                    ELSE OPENDRIVE_LT_PREDECESSOR),
                      r, ie, k + 1)

\* lines 312-324: the links of inner road ie from the k-th on, seen from outer road r
RECURSIVE AssignFromInnerLinks(_, _, _, _)
AssignFromInnerLinks(st, r, ie, k) ==
    IF st.err \/ k > Len(st.edges[ie].links) THEN st
    ELSE LET il == st.edges[ie].links[k]
             nid == <<st.edges[ie].junction>>
         IN  IF il.elementType # OPENDRIVE_ET_ROAD \/ il.elementID # r
             THEN AssignFromInnerLinks(st, r, ie, k + 1)
             ELSE AssignFromInnerLinks(
                      setNodeSecure(st, r, nid,
                                    IF il.contactPoint = OPENDRIVE_CP_START
                                    THEN OPENDRIVE_LT_PREDECESSOR
                                    ELSE OPENDRIVE_LT_SUCCESSOR),
                      r, ie, k + 1)

\* lines 310-325: the inner roads from the k-th on
RECURSIVE AssignFromInner(_, _, _, _)
AssignFromInner(st, r, inner, k) ==
    IF st.err \/ k > Len(inner) THEN st
    ELSE AssignFromInner(AssignFromInnerLinks(st, r, inner[k], 1), r, inner, k + 1)

\* lines 305-327: one outer road
AssignFromInnerRoad(st, r) ==
    IF st.edges[r].to # NULL /\ st.edges[r].from # NULL THEN st
    ELSE AssignFromInner(st, r, Ordered({x \in DOMAIN st.edges : st.edges[x].isInner}), 1)

\* NIImporter_OpenDrive::getOrBuildNode
getOrBuildNode(st, id) == [st EXCEPT !.nodes = @ \cup {id}]

\* lines 330-343: one outer road
BuildEndNodesRoad(st, r) ==
    LET e == st.edges[r]
    IN  IF (e.from = NULL \/ e.to = NULL) /\ Len(e.geom) = 0 THEN st
        ELSE LET s1 == IF e.from = NULL
                       THEN [getOrBuildNode(st, <<r, ".begin">>)
                                EXCEPT !.edges[r].from = <<r, ".begin">>]
                       ELSE st
             IN  IF e.to = NULL
                 THEN [getOrBuildNode(s1, <<r, ".end">>) EXCEPT !.edges[r].to = <<r, ".end">>]
                 ELSE s1

\* the body of the loop over the outer roads in each of the four phases
PhaseBody(phase, st, r) ==
    CASE phase = 1 -> AssignJunctionLinks(st, r, 1)
      [] phase = 2 -> AssignOuterLinks(st, r, 1)
      [] phase = 3 -> AssignFromInnerRoad(st, r)
      [] phase = 4 -> BuildEndNodesRoad(st, r)

\* a loop over the outer roads, in the order of the map, from the k-th on
RECURSIVE ForOuter(_, _, _, _)
ForOuter(phase, st, rs, k) ==
    IF st.err \/ k > Len(rs) THEN st
    ELSE ForOuter(phase, PhaseBody(phase, st, rs[k]), rs, k + 1)

\* the result of a node-building phase becomes the state, or loadNetwork aborts
Commit(st, next) ==
    /\ edges' = st.edges
    /\ nodeCont' = st.nodes
    /\ pc' = IF st.err THEN "error" ELSE next
    /\ UNCHANGED <<edgeCont, l2l, roadIdx, walkIdx, connections2, stack, seen, warnings,
                   myImportAllTypes, otherVars>>

\* build nodes#1, lines 219-262: junction nodes, links to junctions and inner roads
BuildJunctionNodes ==
    /\ pc = "nodes1"
    /\ Commit(ForOuter(1,
                       NodeState(edges, nodeCont \cup {<<edges[r].junction>> : r \in innerEdges}),
                       Ordered(outerEdges), 1), "nodes2")

\* build nodes#2, lines 266-298: nodes between outer roads
BuildOuterNodes ==
    /\ pc = "nodes2"
    /\ Commit(ForOuter(2, NodeState(edges, nodeCont), Ordered(outerEdges), 1),
              "nodes3")

\* build nodes#3, lines 302-327: nodes named by the links of inner roads
AssignInnerNodes ==
    /\ pc = "nodes3"
    /\ Commit(ForOuter(3, NodeState(edges, nodeCont), Ordered(outerEdges), 1),
              "nodes4")

\* lines 329-343: start and end nodes not defined before
BuildEndNodes ==
    /\ pc = "nodes4"
    /\ Commit(ForOuter(4, NodeState(edges, nodeCont), Ordered(outerEdges), 1),
              "edges")

-----------------------------------------------------------------------------
(* Edge building: loadNetwork lines 352-543 *)

Digits == <<"0", "1", "2", "3", "4", "5", "6", "7", "8", "9">>

RECURSIVE IntStr(_)
IntStr(n) == IF n < 10 THEN Digits[n + 1] ELSE IntStr(n \div 10) \o Digits[(n % 10) + 1]

\* toString(double) with the output precision of two digits, x in units of 0.01
toString(x) ==
    IntStr(x \div 100) \o "." \o Digits[((x \div 10) % 10) + 1] \o Digits[(x % 10) + 1]

\* PositionVector::length2D of a polyline on a line
length2D(g) == IF Len(g) = 0 THEN 0 ELSE g[Len(g)] - g[1]

\* PositionVector::push_back_noDoublePos
push_back_noDoublePos(g, p) == IF Len(g) > 0 /\ g[Len(g)] = p THEN g ELSE Append(g, p)

\* the vertices of g strictly between the offsets b and e
RECURSIVE Between(_, _, _, _, _)
Between(g, k, b, e, ret) ==
    IF k > Len(g) THEN ret
    ELSE Between(g, k + 1, b, e,
                 IF g[k] - g[1] >= b /\ g[k] - g[1] < e /\ k > 1
                 THEN push_back_noDoublePos(ret, g[k]) ELSE ret)

\* PositionVector::getSubpart2D: the part of g between two offsets; it has
\* two vertices at least unless g is empty
getSubpart2D(g, b, e) ==
    IF Len(g) = 0 THEN <<>>
    ELSE LET begPos == IF b > POSITION_EPS THEN Min2(g[1] + b, g[Len(g)]) ELSE g[1]
             endPos == IF e < length2D(g) - POSITION_EPS THEN g[1] + Max2(e, 0)
                       ELSE g[Len(g)]
             ret == push_back_noDoublePos(Between(g, 1, b, e, <<begPos>>), endPos)
         IN  IF Len(ret) = 1 THEN Append(ret, endPos) ELSE ret

NBEdge(id, from, to, nolanes, geom, road) ==
    [id |-> id, from |-> from, to |-> to, numLanes |-> nolanes, geom |-> geom, road |-> road]

\* a lane-to-lane connection of an output edge
L2L(from, fromLane, to, toLane, type, origID) ==
    [from |-> from, fromLane |-> fromLane, to |-> to, toLane |-> toLane,
     type |-> type, origID |-> origID]

MapHas(m, k) == k \in DOMAIN m

\* OpenDriveLaneSection::getInnerConnections: the loop over the lanes of one
\* direction (reversed) from the k-th on; ret[from] = to overwrites
RECURSIVE InnerConnections(_, _, _, _, _, _)
InnerConnections(lanes, k, cur, prev, isLeft, ret) ==
    IF k > Len(lanes) THEN ret
    ELSE LET i == lanes[k]
         IN  IF ~MapHas(cur.laneMap, i.id)
                \/ i.predecessor = UNSET_CONNECTION
                \/ ~MapHas(prev.laneMap, i.predecessor)
             THEN InnerConnections(lanes, k + 1, cur, prev, isLeft, ret)
             ELSE LET to == cur.laneMap[i.id]
                      from == prev.laneMap[i.predecessor]
                  IN  InnerConnections(lanes, k + 1, cur, prev, isLeft,
                                       IF isLeft THEN MapPut(ret, to, from)
                                       ELSE MapPut(ret, from, to))

\* getInnerConnections with the lane map of the section in place of prev's
getInnerConnectionsOwnMap(cur, isLeft, prev) ==
    InnerConnections(Reverse(IF isLeft THEN cur.left ELSE cur.right), 1, cur, cur,
                     isLeft, <<>>)

\* OpenDriveLaneSection::getInnerConnections
getInnerConnections(cur, isLeft, prev) ==
    InnerConnections(Reverse(IF isLeft THEN cur.left ELSE cur.right), 1, cur, prev,
                     isLeft, <<>>)

\* SplitLoop that leaves the road as it is
SplitLoopNever(e) == e

\* lines 379-385: a road that starts and ends at the same node and has one
\* lane section gets a copy of the section at half of its length
SplitLoop(e) ==
    IF e.from = e.to /\ Len(e.laneSections) = 1
    THEN [e EXCEPT !.laneSections = Append(@, [@[1] EXCEPT !.s = e.length \div 2])]
    ELSE e

\* SectionID without the branch of lines 409-410
SectionIDPlain(e, sec, sFrom, sTo) ==
    IF sFrom # e.from \/ sTo # e.to THEN <<e.id, ".", toString(sec.s)>> ELSE <<e.id>>

\* lines 406-411: the id of the edges of a lane section
SectionID(e, sec, sFrom, sTo) ==
    IF sFrom # e.from \/ sTo # e.to THEN <<e.id, ".", toString(sec.s)>>
    ELSE IF Len(e.laneSections) = 1 THEN <<e.id, ".", "0.00">>
    ELSE <<e.id>>

\* the state of the loop at line 392
BuildState(e, ns, ec, ll) ==
    [e |-> e, nodes |-> ns, edgeCont |-> ec, l2l |-> ll, sFrom |-> e.from, sB |-> 0,
     prevRight |-> NULL, prevLeft |-> NULL, err |-> FALSE]

\* lines 418-452: the edge of the right lanes of section j
BuildRight(bs, j, id, sTo, geom) ==
    LET sec == bs.e.laneSections[j]
        rid == <<"-">> \o id
    IN  IF bs.err \/ sec.rightLaneNumber = 0 THEN bs
        ELSE IF rid \in DOMAIN bs.edgeCont THEN [bs EXCEPT !.err = TRUE]
        ELSE LET conns == IF bs.prevRight # NULL
                          THEN getInnerConnections(sec, FALSE, bs.e.laneSections[j - 1])
                          ELSE <<>>
             IN  [bs EXCEPT
                    !.edgeCont = MapPut(@, rid, NBEdge(rid, bs.sFrom, sTo,
                                                       sec.rightLaneNumber, geom, bs.e.id)),
                    !.l2l = @ \cup {L2L(bs.prevRight, k, rid, conns[k], "L2L_VALIDATED", "") :
                                        k \in DOMAIN conns},
                    !.prevRight = rid]

\* BuildLeft with the nodes of the edge of the right lanes
BuildLeftForward(bs, j, id, sTo, geom) ==
    LET sec == bs.e.laneSections[j]
    IN  IF bs.err \/ sec.leftLaneNumber = 0 THEN bs
        ELSE IF id \in DOMAIN bs.edgeCont THEN [bs EXCEPT !.err = TRUE]
        ELSE [bs EXCEPT
                 !.edgeCont = MapPut(@, id, NBEdge(id, bs.sFrom, sTo,
                                                   sec.leftLaneNumber, Reverse(geom), bs.e.id)),
                 !.prevLeft = id]

\* lines 454-488: the edge of the left lanes of section j
BuildLeft(bs, j, id, sTo, geom) ==
    LET sec == bs.e.laneSections[j]
    IN  IF bs.err \/ sec.leftLaneNumber = 0 THEN bs
        ELSE IF id \in DOMAIN bs.edgeCont THEN [bs EXCEPT !.err = TRUE]
        ELSE LET conns == IF bs.prevLeft # NULL
                          THEN getInnerConnections(sec, TRUE, bs.e.laneSections[j - 1])
                          ELSE <<>>
             IN  [bs EXCEPT
                    !.edgeCont = MapPut(@, id, NBEdge(id, sTo, bs.sFrom,
                                                      sec.leftLaneNumber, Reverse(geom), bs.e.id)),
                    !.l2l = @ \cup {L2L(id, k, bs.prevLeft, conns[k], "L2L_VALIDATED", "") :
                                        k \in DOMAIN conns},
                    !.prevLeft = id]

\* the offset on the polyline of the offset s on the road: s / cF, line 374
Offset2D(e, s) == IF length2D(e.geom) = 0 THEN s ELSE (s * length2D(e.geom)) \div e.length

\* lines 392-494: the lane sections from the j-th on
RECURSIVE BuildSections(_, _)
BuildSections(bs, j) ==
    IF bs.err \/ j > Len(bs.e.laneSections) THEN bs
    ELSE LET e == bs.e
             last == j = Len(e.laneSections)
             nextS == e.laneSections[j + 1].s
             sTo == IF last THEN e.to ELSE <<e.id, ".", toString(nextS)>>
             sE == IF last THEN Offset2D(e, e.length) ELSE Offset2D(e, nextS)
             id == SectionID(e, e.laneSections[j], bs.sFrom, sTo)
             geom == getSubpart2D(e.geom, bs.sB, sE)
         IN  IF ~last /\ sTo \in bs.nodes THEN [bs EXCEPT !.err = TRUE]
             ELSE LET b0 == [bs EXCEPT !.nodes = @ \cup {sTo}]
                      b2 == BuildLeft(BuildRight(b0, j, id, sTo, geom), j, id, sTo, geom)
                  IN  BuildSections([b2 EXCEPT !.e.laneSections[j].sumoID = id,
                                               !.sB = sE, !.sFrom = sTo], j + 1)

\* the road the loop at line 352 is at
CurrentRoad == Ordered(outerEdges)[roadIdx]

\* lines 354-357: a road with less than two vertices is ignored with a warning
IgnoreRoad ==
    /\ pc = "edges" /\ roadIdx <= Cardinality(outerEdges)
    /\ Len(edges[CurrentRoad].geom) < 2
    /\ warnings' = warnings \cup {[kind |-> "nogeom", a |-> CurrentRoad, b |-> ""]}
    /\ roadIdx' = roadIdx + 1
    /\ UNCHANGED <<edges, pc, nodeCont, edgeCont, l2l, walkIdx, connections2, stack, seen,
                   myImportAllTypes, otherVars>>

\* lines 358-543: the edges of the road the loop is at
BuildCurrentRoad ==
    LET bs == BuildSections(BuildState(SplitLoop(edges[CurrentRoad]), nodeCont,
                                       edgeCont, l2l), 1)
        secs == edges[CurrentRoad].laneSections
    IN  /\ edges' = [edges EXCEPT ![CurrentRoad] = bs.e]
        /\ nodeCont' = bs.nodes
        /\ edgeCont' = bs.edgeCont
        /\ l2l' = bs.l2l
        /\ pc' = IF bs.err THEN "error" ELSE pc
        /\ warnings' = warnings
              \cup (IF bs.e.from = bs.e.to /\ Len(secs) = 1
                    THEN {[kind |-> "split", a |-> CurrentRoad, b |-> ""]} ELSE {})
              \cup (IF ~bs.err /\ \A k \in 1..Len(secs) :
                            secs[k].rightLaneNumber = 0 /\ secs[k].leftLaneNumber = 0
                    THEN {[kind |-> "nolanes", a |-> CurrentRoad, b |-> ""]} ELSE {})
        /\ roadIdx' = roadIdx + 1
        /\ UNCHANGED <<walkIdx, connections2, stack, seen, myImportAllTypes, otherVars>>

\* BuildRoadEdges without the test of line 354
BuildRoadEdgesUnchecked ==
    /\ pc = "edges" /\ roadIdx <= Cardinality(outerEdges)
    /\ BuildCurrentRoad

\* lines 352-543: one round of the loop for a road with a polyline
BuildRoadEdges ==
    /\ pc = "edges" /\ roadIdx <= Cardinality(outerEdges)
    /\ Len(edges[CurrentRoad].geom) >= 2
    /\ BuildCurrentRoad

-----------------------------------------------------------------------------
(* Link collection: setEdgeLinks2, loadNetwork lines 549-551 *)

\* lines 979-991 and 1011-1023: the connection of one lane along link l
LinkConnection(e, l, ln, isLeft) ==
    LET other == IF l.linkType = OPENDRIVE_LT_SUCCESSOR THEN ln.successor
                 ELSE ln.predecessor
        c == IF isLeft
             THEN Connection(l.elementID, other, l.contactPoint,
                             e.id, ln.id, OPENDRIVE_CP_END, FALSE)
             ELSE Connection(e.id, ln.id, OPENDRIVE_CP_END,
                             l.elementID, other, l.contactPoint, FALSE)
    IN  IF l.linkType # OPENDRIVE_LT_SUCCESSOR
        THEN Connection(c.toEdge, c.toLane, c.toCP, c.fromEdge, c.fromLane, c.fromCP, FALSE)
        ELSE c

\* the state setEdgeLinks2 works on: the road table and the errors written
LinkState(es, w) == [edges |-> es, warnings |-> w]

\* lines 975-1003 and 1007-1035: the lanes of one direction from the k-th on
RECURSIVE LinkLanes(_, _, _, _, _, _, _)
LinkLanes(st, e, l, sec, lanes, isLeft, k) ==
    IF k > Len(lanes) THEN st
    ELSE LET c == LinkConnection(e, l, lanes[k], isLeft)
         IN  IF ~myImportAllTypes /\ ~MapHas(sec.laneMap, lanes[k].id)
             THEN LinkLanes(st, e, l, sec, lanes, isLeft, k + 1)
             ELSE IF c.fromEdge \notin DOMAIN st.edges
             THEN LinkLanes([st EXCEPT !.warnings = @ \cup
                                {[kind |-> "incoming", a |-> c.fromEdge, b |-> ""]}],
                            e, l, sec, lanes, isLeft, k + 1)
             ELSE LinkLanes([st EXCEPT !.edges[c.fromEdge].connections = SetInsert(@, c)],
                            e, l, sec, lanes, isLeft, k + 1)

\* lines 955-1037: the links of road r from the k-th on
RECURSIVE LinkLinks(_, _, _)
LinkLinks(st, r, k) ==
    IF k > Len(st.edges[r].links) THEN st
    ELSE LET e == st.edges[r]
             l == e.links[k]
             sec == IF l.linkType = OPENDRIVE_LT_SUCCESSOR
                    THEN e.laneSections[Len(e.laneSections)] ELSE e.laneSections[1]
         IN  IF l.elementType # OPENDRIVE_ET_ROAD THEN LinkLinks(st, r, k + 1)
             ELSE LinkLinks(LinkLanes(LinkLanes(st, e, l, sec, sec.right, FALSE, 1),
                                      e, l, sec, sec.left, TRUE, 1), r, k + 1)

\* NIImporter_OpenDrive::setEdgeLinks2
setEdgeLinks2(st, r) == LinkLinks(st, r, 1)

\* lines 549-551: setEdgeLinks2 for the roads from the k-th on
RECURSIVE LinkRoads(_, _, _)
LinkRoads(st, rs, k) ==
    IF k > Len(rs) THEN st ELSE LinkRoads(setEdgeLinks2(st, rs[k]), rs, k + 1)

\* lines 549-551, reached when the loop at line 352 is over
SetEdgeLinks ==
    /\ pc = "edges" /\ roadIdx > Cardinality(outerEdges)
    /\ LET st == LinkRoads(LinkState(edges, warnings), Ordered(Roads), 1)
       IN  /\ edges' = st.edges
           /\ warnings' = st.warnings
    /\ pc' = "connections"
    /\ roadIdx' = 1
    /\ walkIdx' = 1
    /\ UNCHANGED <<nodeCont, edgeCont, l2l, connections2, stack, seen, myImportAllTypes,
                   otherVars>>

-----------------------------------------------------------------------------
(* Connection flattening: loadNetwork lines 553-569, buildConnectionsToOuter *)

\* all connections in the order of the loops at lines 554 and 557
RECURSIVE ConnsOf(_, _)
ConnsOf(rs, k) ==
    IF k > Len(rs) THEN <<>>
    ELSE SetOrder(edges[rs[k]].connections) \o ConnsOf(rs, k + 1)

AllConns == ConnsOf(Ordered(Roads), 1)

\* innerEdges.find(id) != innerEdges.end()
IsInner(id) == id \in innerEdges

\* activation record of buildConnectionsToOuter(c, innerEdges, into, seen)
Frame(c) == [c |-> c, conts |-> SetOrder(edges[c.toEdge].connections), into |-> <<>>]

\* lines 833-839: the connection built from c and the inner-to-outer connection i
ToOuter(c, i) ==
    [i EXCEPT !.fromEdge = c.fromEdge, !.fromLane = c.fromLane, !.fromCP = c.fromCP,
              !.all = c.all, !.origID = c.toEdge, !.origLane = c.toLane,
              !.chain = <<c.toEdge>>, !.inLanes = <<c.toLane>>,
              !.outLanes = <<i.fromLane>>]

\* Prepend that also takes origID and origLane from c
PrependOrig(c, cn) ==
    [cn EXCEPT !.fromEdge = c.fromEdge, !.fromLane = c.fromLane, !.fromCP = c.fromCP,
               !.all = c.all, !.origID = c.toEdge, !.origLane = c.toLane,
               !.chain = <<c.toEdge>> \o cn.chain,
               !.inLanes = <<c.toLane>> \o cn.inLanes,
               !.outLanes = <<cn.fromLane>> \o cn.outLanes]

\* lines 818-822: a connection returned by the recursive call, seen from c
\* (chain, inLanes and outLanes record the inner roads the connection passes
\* and the lanes by which each is entered and left, for the analysis only)
Prepend(c, cn) ==
    [cn EXCEPT !.fromEdge = c.fromEdge, !.fromLane = c.fromLane, !.fromCP = c.fromCP,
               !.all = c.all, !.chain = <<c.toEdge>> \o cn.chain,
               !.inLanes = <<c.toLane>> \o cn.inLanes,
               !.outLanes = <<cn.fromLane>> \o cn.outLanes]

PrependAll(c, t) == [k \in 1..Len(t) |-> Prepend(c, t[k])]

Top == stack[Len(stack)]

\* push_back on `into`, which is connections2 itself in the outermost call
PushInto(items) ==
    IF Len(stack) = 1
    THEN /\ connections2' = connections2 \o items
         /\ stack' = [stack EXCEPT ![1].conts = Tail(@)]
    ELSE /\ connections2' = connections2
         /\ stack' = [stack EXCEPT ![Len(stack)].conts = Tail(@),
                                   ![Len(stack)].into = @ \o items]

\* line 558: connections starting at inner edges are skipped
SkipFromInner ==
    /\ pc = "connections" /\ stack = <<>> /\ walkIdx <= Len(AllConns)
    /\ IsInner(AllConns[walkIdx].fromEdge)
    /\ walkIdx' = walkIdx + 1
    /\ UNCHANGED <<edges, pc, nodeCont, edgeCont, l2l, roadIdx, connections2, stack,
                   seen, warnings, myImportAllTypes, otherVars>>

\* StartWalk with one seen set for all walks
StartWalkSharedSeen ==
    /\ pc = "connections" /\ stack = <<>> /\ walkIdx <= Len(AllConns)
    /\ LET c == AllConns[walkIdx]
       IN  /\ ~IsInner(c.fromEdge) /\ IsInner(c.toEdge)
           /\ seen' = SetInsert(seen, c)
           /\ stack' = <<Frame(c)>>
    /\ UNCHANGED <<edges, pc, nodeCont, edgeCont, l2l, roadIdx, walkIdx, connections2,
                   warnings, myImportAllTypes, otherVars>>

\* lines 562-564: a walk starts with an empty seen set; line 803 inserts c
StartWalk ==
    /\ pc = "connections" /\ stack = <<>> /\ walkIdx <= Len(AllConns)
    /\ LET c == AllConns[walkIdx]
       IN  /\ ~IsInner(c.fromEdge) /\ IsInner(c.toEdge)
           /\ seen' = SetInsert({}, c)
           /\ stack' = <<Frame(c)>>
    /\ UNCHANGED <<edges, pc, nodeCont, edgeCont, l2l, roadIdx, walkIdx, connections2,
                   warnings, myImportAllTypes, otherVars>>

\* EmitDirect without the test of line 562 on the to-edge
EmitDirectUnchecked ==
    /\ pc = "connections" /\ stack = <<>> /\ walkIdx <= Len(AllConns)
    /\ LET c == AllConns[walkIdx]
       IN  /\ ~IsInner(c.fromEdge)
           /\ connections2' = Append(connections2, c)
    /\ walkIdx' = walkIdx + 1
    /\ UNCHANGED <<edges, pc, nodeCont, edgeCont, l2l, roadIdx, stack, seen, warnings,
                   myImportAllTypes, otherVars>>

\* line 566: a connection between outer roads is taken as it is
EmitDirect ==
    /\ pc = "connections" /\ stack = <<>> /\ walkIdx <= Len(AllConns)
    /\ LET c == AllConns[walkIdx]
       IN  /\ ~IsInner(c.fromEdge) /\ ~IsInner(c.toEdge)
           /\ connections2' = Append(connections2, c)
    /\ walkIdx' = walkIdx + 1
    /\ UNCHANGED <<edges, pc, nodeCont, edgeCont, l2l, roadIdx, stack, seen, warnings,
                   myImportAllTypes, otherVars>>

\* WalkRecurse without the test of line 814 on the seen set
WalkRecurseUnchecked ==
    /\ pc = "connections" /\ stack # <<>> /\ Top.conts # <<>>
    /\ LET i == Head(Top.conts)
       IN  /\ IsInner(i.toEdge)
           /\ seen' = SetInsert(seen, i)
           /\ stack' = Append(stack, Frame(i))
    /\ UNCHANGED <<edges, pc, nodeCont, edgeCont, l2l, roadIdx, walkIdx, connections2,
                   warnings, myImportAllTypes, otherVars>>

\* lines 812-815: an unseen connection to an inner road: recursive call, line 803
WalkRecurse ==
    /\ pc = "connections" /\ stack # <<>> /\ Top.conts # <<>>
    /\ LET i == Head(Top.conts)
       IN  /\ IsInner(i.toEdge) /\ SetCount(seen, i) = 0
           /\ seen' = SetInsert(seen, i)
           /\ stack' = Append(stack, Frame(i))
    /\ UNCHANGED <<edges, pc, nodeCont, edgeCont, l2l, roadIdx, walkIdx, connections2,
                   warnings, myImportAllTypes, otherVars>>

\* lines 828-830: a seen connection to an inner road: warning
WalkCircular ==
    /\ pc = "connections" /\ stack # <<>> /\ Top.conts # <<>>
    /\ LET i == Head(Top.conts)
       IN  /\ IsInner(i.toEdge) /\ SetCount(seen, i) # 0
           /\ warnings' = warnings \cup {[kind |-> "circular", a |-> Top.c.fromEdge,
                                           b |-> Top.c.toEdge]}
    /\ stack' = [stack EXCEPT ![Len(stack)].conts = Tail(@)]
    /\ UNCHANGED <<edges, pc, nodeCont, edgeCont, l2l, roadIdx, walkIdx, connections2,
                   seen, myImportAllTypes, otherVars>>

\* lines 831-919: a connection to an outer road whose lanes are connected
WalkEmit ==
    /\ pc = "connections" /\ stack # <<>> /\ Top.conts # <<>>
    /\ LET i == Head(Top.conts)
       IN  /\ ~IsInner(i.toEdge)
           /\ laneSectionsConnected(edges[Top.c.toEdge], Top.c.toLane, i.fromLane)
           /\ PushInto(<<ToOuter(Top.c, i)>>)
    /\ UNCHANGED <<edges, pc, nodeCont, edgeCont, l2l, roadIdx, walkIdx, seen, warnings,
                   myImportAllTypes, otherVars>>

\* line 832: a connection to an outer road whose lanes are not connected
WalkSkip ==
    /\ pc = "connections" /\ stack # <<>> /\ Top.conts # <<>>
    /\ LET i == Head(Top.conts)
       IN  /\ ~IsInner(i.toEdge)
           /\ ~laneSectionsConnected(edges[Top.c.toEdge], Top.c.toLane, i.fromLane)
    /\ stack' = [stack EXCEPT ![Len(stack)].conts = Tail(@)]
    /\ UNCHANGED <<edges, pc, nodeCont, edgeCont, l2l, roadIdx, walkIdx, connections2,
                   seen, warnings, myImportAllTypes, otherVars>>

\* lines 816-827: the recursive call returns t, which is rewritten into `into`
WalkReturnInner ==
    /\ pc = "connections" /\ Len(stack) > 1 /\ Top.conts = <<>>
    /\ LET t == Top.into
           caller == stack[Len(stack) - 1]
           rest == SubSeq(stack, 1, Len(stack) - 1)
           items == PrependAll(caller.c, t)
       IN  IF Len(rest) = 1
           THEN /\ connections2' = connections2 \o items
                /\ stack' = [rest EXCEPT ![1].conts = Tail(@)]
           ELSE /\ connections2' = connections2
                /\ stack' = [rest EXCEPT ![Len(rest)].conts = Tail(@),
                                         ![Len(rest)].into = @ \o items]
    /\ UNCHANGED <<edges, pc, nodeCont, edgeCont, l2l, roadIdx, walkIdx, seen, warnings,
                   myImportAllTypes, otherVars>>

\* line 564 returns: the loop at line 557 goes on
WalkReturnOuter ==
    /\ pc = "connections" /\ Len(stack) = 1 /\ Top.conts = <<>>
    /\ stack' = <<>>
    /\ walkIdx' = walkIdx + 1
    /\ UNCHANGED <<edges, pc, nodeCont, edgeCont, l2l, roadIdx, connections2, seen,
                   warnings, myImportAllTypes, otherVars>>

\* line 569: the loops are over
EndConnections ==
    /\ pc = "connections" /\ stack = <<>> /\ walkIdx > Len(AllConns)
    /\ pc' = "setconns"
    /\ UNCHANGED <<edges, nodeCont, edgeCont, l2l, roadIdx, walkIdx, connections2,
                   stack, seen, warnings, myImportAllTypes, otherVars>>

NextFlatten ==
    \/ SkipFromInner \/ StartWalk \/ EmitDirect \/ WalkRecurse \/ WalkCircular
    \/ WalkEmit \/ WalkSkip \/ WalkReturnInner \/ WalkReturnOuter \/ EndConnections

-----------------------------------------------------------------------------
(* Connection setting: loadNetwork lines 571-643 *)

\* option output.original-names
saveOrigIDs == TRUE

\* NIImporter_OpenDrive::revertID
revertID(id) == IF id # <<>> /\ Head(id) = "-" THEN Tail(id) ELSE <<"-">> \o id

\* std::map<int, int>::operator[]: a key that is not there reads as 0
MapAt(m, k) == IF MapHas(m, k) THEN m[k] ELSE 0

\* NBEdge::addLane2LaneConnection followed by lines 633-642: the connection
\* is added once; its original id is set when one is given
AddL2L(ll, c) ==
    LET same == {x \in ll : /\ x.from = c.from /\ x.fromLane = c.fromLane
                            /\ x.to = c.to /\ x.toLane = c.toLane}
    IN  IF same = {} THEN ll \cup {c}
        ELSE IF c.origID # "" THEN (ll \ same) \cup {[x EXCEPT !.origID = c.origID] : x \in same}
        ELSE ll

\* Resolve with the first lane section on both sides
ResolveFirst(c) ==
    LET fromSec == edges[c.fromEdge].laneSections[1]
        toSec == edges[c.toEdge].laneSections[1]
    IN  [from |-> IF c.fromLane < 0 THEN revertID(fromSec.sumoID) ELSE fromSec.sumoID,
         to |-> IF c.toLane < 0 THEN revertID(toSec.sumoID) ELSE toSec.sumoID,
         fromLane |-> IF MapHas(fromSec.laneMap, c.fromLane) THEN fromSec.laneMap[c.fromLane]
                      ELSE 0,
         toLane |-> IF MapHas(toSec.laneMap, c.toLane) THEN toSec.laneMap[c.toLane] ELSE 0]

\* lines 575-609: the output edges and lanes connection c refers to
Resolve(c) ==
    LET odFrom == edges[c.fromEdge]
        odTo == edges[c.toEdge]
        fromLast == c.fromCP = OPENDRIVE_CP_END /\ c.fromLane < 0
        toLast == c.toCP = OPENDRIVE_CP_END \/ c.toLane > 0
        fromSec == IF fromLast THEN odFrom.laneSections[Len(odFrom.laneSections)]
                   ELSE odFrom.laneSections[1]
        toSec == IF toLast THEN odTo.laneSections[Len(odTo.laneSections)]
                 ELSE odTo.laneSections[1]
    IN  [from |-> IF c.fromLane < 0 THEN revertID(fromSec.sumoID) ELSE fromSec.sumoID,
         to |-> IF c.toLane < 0 THEN revertID(toSec.sumoID) ELSE toSec.sumoID,
         fromLane |-> MapAt(fromSec.laneMap, c.fromLane),
         toLane |-> MapAt(toSec.laneMap, c.toLane)]

\* the state of the loop at line 571
SetState(ll, w) == [l2l |-> ll, warnings |-> w]

Warn(st, kind, a, b) == [st EXCEPT !.warnings = @ \cup {[kind |-> kind, a |-> a, b |-> b]}]

\* SetConnection without the tests of lines 612-620
SetConnectionUnchecked(st, c) ==
    IF c.fromEdge \notin Roads THEN Warn(st, "fromUnknown", c.fromEdge, "")
    ELSE IF c.toEdge \notin Roads THEN Warn(st, "toUnknown", c.toEdge, "")
    ELSE IF c.fromLane = UNSET_CONNECTION \/ c.toLane = UNSET_CONNECTION THEN st
    ELSE LET r == Resolve(c)
         IN  [st EXCEPT !.l2l = AddL2L(@, L2L(r.from, r.fromLane, r.to, r.toLane,
                                              "L2L_USER",
                                              IF saveOrigIDs THEN c.origID ELSE ""))]

\* lines 575-642: one connection of connections2
SetConnection(st, c) ==
    IF c.fromEdge \notin Roads THEN Warn(st, "fromUnknown", c.fromEdge, "")
    ELSE IF c.toEdge \notin Roads THEN Warn(st, "toUnknown", c.toEdge, "")
    ELSE IF c.fromLane = UNSET_CONNECTION \/ c.toLane = UNSET_CONNECTION THEN st
    ELSE LET r == Resolve(c)
             noFrom == r.from \notin DOMAIN edgeCont
             noTo == r.to \notin DOMAIN edgeCont
             w1 == IF noFrom THEN Warn(st, "noFromEdge", c.fromEdge, c.origID) ELSE st
             w2 == IF noTo THEN Warn(w1, "noToEdge", c.toEdge, c.origID) ELSE w1
         IN  IF noFrom \/ noTo THEN w2
             ELSE [st EXCEPT !.l2l = AddL2L(@, L2L(r.from, r.fromLane, r.to, r.toLane,
                                                  "L2L_USER",
                                                  IF saveOrigIDs THEN c.origID ELSE ""))]

\* lines 571-643: the connections from the k-th on
RECURSIVE SetConnectionsFrom(_, _)
SetConnectionsFrom(st, k) ==
    IF k > Len(connections2) THEN st
    ELSE SetConnectionsFrom(SetConnection(st, connections2[k]), k + 1)

\* lines 571-643
SetConnections ==
    /\ pc = "setconns"
    /\ LET st == SetConnectionsFrom(SetState(l2l, warnings), 1)
       IN  /\ l2l' = st.l2l
           /\ warnings' = st.warnings
    /\ pc' = "done"
    /\ UNCHANGED <<edges, nodeCont, edgeCont, roadIdx, walkIdx, connections2, stack, seen,
                   myImportAllTypes, otherVars>>

-----------------------------------------------------------------------------
(* The walks of buildConnectionsToOuter over junctions given by their        *)
(* connection sets (the state of the road table when line 553 is reached)    *)

DrivingLanes(ids, succ) == [k \in 1..Len(ids) |-> Lane(ids[k], "driving", ids[k], succ[k])]

\* one section with the right lanes -1 and -2
OneSection == <<LaneSection(0, DrivingLanes(<<-1, -2>>, <<-1, -2>>), <<>>, FALSE)>>

\* two sections; lane -2 of the first section continues as lane -1
TwoSections ==
    <<LaneSection(0, DrivingLanes(<<-1, -2>>, <<-1, -1>>), <<>>, FALSE),
      LaneSection(100, DrivingLanes(<<-1, -2>>, <<-1, -2>>), <<>>, FALSE)>>

FlattenPairs ==
    {<<"A", "X">>, <<"X", "Y">>, <<"Y", "X">>, <<"X", "B">>, <<"Y", "B">>, <<"A", "B">>}

FlattenLanes == {<<-1, -1>>, <<-1, -2>>, <<-2, -2>>}

CandConns ==
    {Connection(p[1], l[1], OPENDRIVE_CP_END, p[2], l[2], OPENDRIVE_CP_START, FALSE) :
        p \in FlattenPairs, l \in FlattenLanes}

FlattenNet(S) ==
    [r \in {"A", "B", "X", "Y"} |->
        Road(r, IF r \in {"X", "Y"} THEN "J" ELSE "-1", 200, <<0, 200>>,
             IF r = "Y" THEN TwoSections ELSE OneSection, <<>>,
             {c \in S : c.fromEdge = r})]

\* the connections of a junction whose inner roads X and Z both lead to the
\* inner road Y, which leads on to the inner road W
DiamondConns ==
    {Connection(p[1], -1, OPENDRIVE_CP_END, p[2], -1, OPENDRIVE_CP_START, FALSE) :
        p \in {<<"A", "X">>, <<"X", "Y">>, <<"X", "Z">>, <<"Z", "Y">>, <<"Y", "W">>,
                <<"W", "B">>, <<"Y", "B">>, <<"Z", "B">>}}

DiamondNet(S) ==
    [r \in {"A", "B", "W", "X", "Y", "Z"} |->
        Road(r, IF r \in {"W", "X", "Y", "Z"} THEN "J" ELSE "-1", 200, <<0, 200>>,
             OneSection, <<>>, {c \in S : c.fromEdge = r})]

InitFlatten ==
    /\ \/ \E S \in SUBSET CandConns :
             /\ Cardinality(S) <= MaxConns
             /\ edges = FlattenNet(S)
       \/ \E S \in SUBSET DiamondConns : edges = DiamondNet(S)
    /\ pc = "connections"
    /\ nodeCont = {} /\ edgeCont = <<>> /\ l2l = {} /\ roadIdx = 1
    /\ walkIdx = 1 /\ connections2 = <<>> /\ stack = <<>> /\ seen = {}
    /\ warnings = {}
    /\ ls = <<>> /\ lsInner = FALSE /\ lsIn = <<>> /\ lane = <<>>
    /\ args = <<>> /\ result = <<>>
    /\ myImportAllTypes = FALSE

SpecFlatten == InitFlatten /\ [][NextFlatten]_vars

-----------------------------------------------------------------------------
(* loadNetwork from the node building on, over road tables as the parser and *)
(* revisitLaneSections leave them                                            *)

Next ==
    \/ BuildJunctionNodes \/ BuildOuterNodes \/ AssignInnerNodes \/ BuildEndNodes
    \/ IgnoreRoad \/ BuildRoadEdges \/ SetEdgeLinks
    \/ SkipFromInner \/ StartWalk \/ EmitDirect \/ WalkRecurse \/ WalkCircular
    \/ WalkEmit \/ WalkSkip \/ WalkReturnInner \/ WalkReturnOuter \/ EndConnections
    \/ SetConnections

LaneTypes == {"driving", "none"}
RightRefs == {-1, -2, UNSET_CONNECTION}

\* the right lanes -1 and -2 of the first of two sections, with any successors
FirstRight ==
    {<<Lane(-1, t1, UNSET_CONNECTION, s1), Lane(-2, t2, UNSET_CONNECTION, s2)>> :
        t1 \in LaneTypes, t2 \in LaneTypes, s1 \in RightRefs, s2 \in RightRefs}

\* the right lanes -1 and -2 of the second of two sections, with any predecessors
SecondRight ==
    {<<Lane(-1, t1, p1, UNSET_CONNECTION), Lane(-2, t2, p2, UNSET_CONNECTION)>> :
        t1 \in LaneTypes, t2 \in LaneTypes, p1 \in RightRefs, p2 \in RightRefs}

\* the left lanes 1 and 2 of a section, with any predecessors
LeftLanes ==
    {<<>>} \cup
    {<<Lane(1, "driving", p1, 1), Lane(2, t2, p2, 2)>> :
        t2 \in LaneTypes, p1 \in {1, 2}, p2 \in {1, UNSET_CONNECTION}}

PlainRight == <<Lane(-1, "driving", -1, -1)>>
PlainLeft == <<Lane(1, "driving", 1, 1)>>

\* two lane sections with all the lane links between them on one side
Doubles(importAll) ==
    {<<LaneSection(0, r1, <<>>, importAll), LaneSection(200, r2, <<>>, importAll)>> :
        r1 \in FirstRight, r2 \in SecondRight}
    \cup {<<LaneSection(0, PlainRight, PlainLeft \o <<Lane(2, "driving", 2, 2)>>, importAll),
            LaneSection(200, PlainRight, l, importAll)>> : l \in LeftLanes}

\* one or two lane sections with at most one lane on each side
Singles(importAll) ==
    {<<LaneSection(0, r, l, importAll)>> :
        r \in {<<>>, PlainRight, <<Lane(-1, "none", -1, -1)>>}, l \in {<<>>, PlainLeft}}
    \cup {<<LaneSection(50, PlainRight, PlainLeft, importAll)>>}
    \cup {<<LaneSection(0, r, l, importAll), LaneSection(200, PlainRight, PlainLeft, importAll)>> :
        r \in {<<>>, PlainRight}, l \in {<<>>, PlainLeft}}

GeomChoices == {<<>>, <<0>>, <<0, 400>>, <<0, 200, 400>>, <<0, 0>>}

\* the links of road A: none, to a junction, a loop, to road B, to the
\* inner road X, to a junction without connecting roads
LinkChoices ==
    {<<>>,
     <<Link(OPENDRIVE_LT_SUCCESSOR, OPENDRIVE_ET_JUNCTION, "J", OPENDRIVE_CP_START)>>,
     <<Link(OPENDRIVE_LT_PREDECESSOR, OPENDRIVE_ET_JUNCTION, "J", OPENDRIVE_CP_START),
       Link(OPENDRIVE_LT_SUCCESSOR, OPENDRIVE_ET_JUNCTION, "J", OPENDRIVE_CP_START)>>,
     <<Link(OPENDRIVE_LT_SUCCESSOR, OPENDRIVE_ET_ROAD, "B", OPENDRIVE_CP_START)>>,
     <<Link(OPENDRIVE_LT_SUCCESSOR, OPENDRIVE_ET_ROAD, "X", OPENDRIVE_CP_START)>>,
     <<Link(OPENDRIVE_LT_SUCCESSOR, OPENDRIVE_ET_JUNCTION, "K", OPENDRIVE_CP_START)>>}

\* the links of an inner road from road p (left at its end) to road n
ThroughLinks(p, n) ==
    <<Link(OPENDRIVE_LT_PREDECESSOR, OPENDRIVE_ET_ROAD, p, OPENDRIVE_CP_END),
      Link(OPENDRIVE_LT_SUCCESSOR, OPENDRIVE_ET_ROAD, n, OPENDRIVE_CP_START)>>

\* road A as chosen, an outer road B of two lane sections and an inner road
\* X of junction J
EdgeNet(geom, secs, links, xlinks, importAll) ==
    [r \in {"A", "B", "X"} |->
        CASE r = "A" -> Road("A", "-1", 400, geom, secs, links, {})
          [] r = "B" -> Road("B", "-1", 400, <<500, 700, 900>>,
                             <<LaneSection(0, PlainRight, PlainLeft, importAll),
                               LaneSection(200, PlainRight, PlainLeft, importAll)>>, <<>>, {})
          [] r = "X" -> Road("X", "J", 100, <<400, 500>>,
                             <<LaneSection(0, PlainRight, <<>>, importAll)>>, xlinks, {})]

InitEdgesNet ==
    \/ \E secs \in Doubles(myImportAllTypes) :
          edges = EdgeNet(<<0, 200, 400>>, secs, <<>>, ThroughLinks("A", "B"), myImportAllTypes)
    \/ \E geom \in GeomChoices, secs \in Singles(myImportAllTypes), links \in LinkChoices,
           xlinks \in {<<>>, ThroughLinks("A", "B")} :
          edges = EdgeNet(geom, secs, links, xlinks, myImportAllTypes)

\* the bound on the laneLinks of the junction
MaxLinks == 2

\* the connections the parser builds from the junction: laneLinks from A to
\* the inner road X and to B, and connections without laneLinks (all lanes)
JunctionConns ==
    {Connection("A", f, OPENDRIVE_CP_END, "X", t, OPENDRIVE_CP_START, FALSE) :
        f \in {-1, -2}, t \in {-1, -2}}
    \cup {Connection("A", l[1], OPENDRIVE_CP_END, "B", l[2], l[3], FALSE) :
        l \in {<<-1, -1, OPENDRIVE_CP_START>>, <<-3, -1, OPENDRIVE_CP_START>>,
                <<-1, -3, OPENDRIVE_CP_END>>, <<1, 1, OPENDRIVE_CP_END>>,
                <<1, -2, OPENDRIVE_CP_START>>}}
    \cup {Connection("A", 0, OPENDRIVE_CP_END, t[1], 0, t[2], TRUE) :
        t \in {<<"X", OPENDRIVE_CP_START>>, <<"B", OPENDRIVE_CP_START>>,
                <<"B", OPENDRIVE_CP_END>>}}

\* road A with one right lane in the first and two in the last section
JunctionA ==
    <<LaneSection(0, PlainRight, PlainLeft, myImportAllTypes),
      LaneSection(200, <<Lane(-1, "driving", -1, -1), Lane(-2, "driving", -1, -2)>>,
                  PlainLeft, myImportAllTypes)>>

\* road B with two right lanes, one of a discarded type, in the first section
JunctionB ==
    <<LaneSection(0, <<Lane(-1, "driving", -1, -1), Lane(-2, "none", -2, -1)>>,
                  PlainLeft, myImportAllTypes),
      LaneSection(200, PlainRight, PlainLeft, myImportAllTypes)>>

\* the inner road X: two right lanes and a left lane, in one or two sections
JunctionX ==
    {IF two
     THEN <<LaneSection(0, <<Lane(-1, "driving", -1, -1), Lane(-2, "driving", -2, -2)>>,
                        PlainLeft, myImportAllTypes),
            LaneSection(50, <<Lane(-1, "driving", -1, s1), Lane(-2, "driving", -2, -2)>>,
                        PlainLeft, myImportAllTypes)>>
     ELSE <<LaneSection(0, <<Lane(-1, "driving", -1, s1), Lane(-2, "driving", -2, -2)>>,
                        PlainLeft, myImportAllTypes)>> :
        two \in BOOLEAN, s1 \in RightRefs}

\* the chain A -> X -> B over junction J
JunctionNet(S, xsecs, geomB) ==
    [r \in {"A", "B", "X"} |->
        CASE r = "A" -> Road("A", "-1", 400, <<0, 200, 400>>, JunctionA,
                             <<Link(OPENDRIVE_LT_SUCCESSOR, OPENDRIVE_ET_JUNCTION, "J",
                                    OPENDRIVE_CP_START)>>, S)
          [] r = "B" -> Road("B", "-1", 400, geomB, JunctionB,
                             <<Link(OPENDRIVE_LT_PREDECESSOR, OPENDRIVE_ET_JUNCTION, "J",
                                    OPENDRIVE_CP_START)>>, {})
          [] r = "X" -> Road("X", "J", 100, <<400, 500>>, xsecs, ThroughLinks("A", "B"), {})]

InitJunctionNet ==
    \E S \in SUBSET JunctionConns, xsecs \in JunctionX, geomB \in {<<>>, <<500, 700, 900>>} :
        /\ Cardinality(S) <= MaxLinks
        /\ \A c \in S, d \in S : c # d => ~ConnEquiv(c, d)
        /\ edges = JunctionNet(S, xsecs, geomB)

\* the chain A -> X -> Y -> B over junction J, with or without a way back
\* from Y to X
ChainNet(back) ==
    [r \in {"A", "B", "X", "Y"} |->
        CASE r = "A" -> Road("A", "-1", 400, <<0, 400>>,
                             <<LaneSection(0, PlainRight, <<>>, myImportAllTypes)>>, <<>>, {})
          [] r = "B" -> Road("B", "-1", 400, <<600, 1000>>,
                             <<LaneSection(0, PlainRight, <<>>, myImportAllTypes)>>, <<>>, {})
          [] r = "X" -> Road("X", "J", 100, <<400, 500>>,
                             <<LaneSection(0, PlainRight, <<>>, myImportAllTypes)>>,
                             ThroughLinks("A", "Y"), {})
          [] r = "Y" -> Road("Y", "J", 100, <<500, 600>>,
                             <<LaneSection(0, PlainRight, <<>>, myImportAllTypes)>>,
                             ThroughLinks("X", "B"),
                             IF back
                             THEN {Connection("Y", -1, OPENDRIVE_CP_END, "X", -1,
                                              OPENDRIVE_CP_START, FALSE)}
                             ELSE {})]

Init ==
    /\ myImportAllTypes \in BOOLEAN
    /\ \/ InitEdgesNet
       \/ InitJunctionNet
       \/ \E back \in BOOLEAN : edges = ChainNet(back)
    /\ pc = "nodes1"
    /\ nodeCont = {} /\ edgeCont = <<>> /\ l2l = {} /\ roadIdx = 1
    /\ walkIdx = 1 /\ connections2 = <<>> /\ stack = <<>> /\ seen = {}
    /\ warnings = {}
    /\ ls = <<>> /\ lsInner = FALSE /\ lsIn = <<>> /\ lane = <<>>
    /\ args = <<>> /\ result = <<>>

Spec == Init /\ [][Next]_vars

-----------------------------------------------------------------------------
(* setNodeSecure called on its own, and the node building of loadNetwork *)

\* setNodeSecure(nc, e, nodeID, lt) for road A
SetNodeSecureCall ==
    /\ pc = "setnode"
    /\ LET st == setNodeSecure(NodeState(edges, nodeCont), "A", args.nodeID, args.lt)
       IN  /\ edges' = st.edges
           /\ nodeCont' = st.nodes
           /\ result' = [threw |-> st.err]
           /\ pc' = IF st.err THEN "error" ELSE "nodeset"
    /\ UNCHANGED <<edgeCont, l2l, roadIdx, walkIdx, connections2, stack, seen, warnings,
                   ls, lsInner, lsIn, lane, args, myImportAllTypes>>

NextNode ==
    \/ SetNodeSecureCall
    \/ BuildJunctionNodes \/ BuildOuterNodes \/ AssignInnerNodes \/ BuildEndNodes

NodeIDs == {<<"J">>, <<"K">>, <<"A", ".", "B">>}

\* road A with any nodes bound, any nodes built and any node to bind
InitNodeCall ==
    /\ nodeCont \in SUBSET NodeIDs
    /\ \E f \in nodeCont \cup {NULL}, t \in nodeCont \cup {NULL} :
          edges = [r \in {"A"} |->
                      [Road("A", "-1", 400, <<0, 400>>,
                            <<LaneSection(0, PlainRight, <<>>, FALSE)>>, <<>>, {})
                          EXCEPT !.from = f, !.to = t]]
    /\ args \in [nodeID : NodeIDs, lt : {OPENDRIVE_LT_SUCCESSOR, OPENDRIVE_LT_PREDECESSOR}]
    /\ pc = "setnode"
    /\ edgeCont = <<>> /\ l2l = {} /\ roadIdx = 1
    /\ walkIdx = 1 /\ connections2 = <<>> /\ stack = <<>> /\ seen = {}
    /\ warnings = {}
    /\ ls = <<>> /\ lsInner = FALSE /\ lsIn = <<>> /\ lane = <<>>
    /\ result = <<>>
    /\ myImportAllTypes = FALSE

SpecNode == (Init \/ InitNodeCall) /\ [][NextNode]_vars

-----------------------------------------------------------------------------
(* setLaneAttributes: width and permissions of an output lane *)

\* NBEdge::UNSPECIFIED_WIDTH
UNSPECIFIED_WIDTH == -1

SVC_PASSENGER == "passenger"
SVC_EMERGENCY == "emergency"
SVC_AUTHORITY == "authority"

\* floor(width / widthResolution + 0.5) * widthResolution, for width >= 0
RoundToResolution(width, widthResolution) ==
    ((2 * width + widthResolution) \div (2 * widthResolution)) * widthResolution

\* line 755: the width of the lane or the width of its type
SelectedWidth(l) ==
    IF l.myImportWidths /\ l.odWidth # UNSPECIFIED_WIDTH THEN l.odWidth ELSE l.tcWidth

\* forbiddenNarrow without the comparison with the width of the type
forbiddenNarrowAnyType(l) ==
    /\ SelectedWidth(l) < l.myMinWidth
    /\ SVC_PASSENGER \in l.tcPermissions

\* lines 760-762
forbiddenNarrow(l) ==
    /\ SelectedWidth(l) < l.myMinWidth
    /\ SVC_PASSENGER \in l.tcPermissions
    /\ SelectedWidth(l) < l.tcWidth

\* lines 764-775: rounding to the width resolution
ResolvedWidth(l) ==
    LET w == SelectedWidth(l)
        r == RoundToResolution(w, l.widthResolution)
    IN  IF w >= 0 /\ l.widthResolution > 0
        THEN IF forbiddenNarrow(l) /\ r >= l.myMinWidth
             THEN IF r - l.widthResolution <= 0
                  THEN Max2(POSITION_EPS, l.myMinWidth - POSITION_EPS)
                  ELSE r - l.widthResolution
             ELSE IF r = 0 THEN l.widthResolution ELSE r
        ELSE w

\* lines 776-778: clamping to the maximum width
FinalWidth(l) ==
    IF l.maxWidth > 0 THEN Min2(ResolvedWidth(l), l.maxWidth) ELSE ResolvedWidth(l)

\* NIImporter_OpenDrive::setLaneAttributes
SetLaneAttributes ==
    /\ pc = "lane"
    /\ lane' = [lane EXCEPT !.width = FinalWidth(lane),
                            !.permissions = IF forbiddenNarrow(lane)
                                            THEN {SVC_EMERGENCY, SVC_AUTHORITY}
                                            ELSE lane.tcPermissions]
    /\ pc' = "laneset"
    /\ UNCHANGED <<edges, nodeCont, edgeCont, l2l, roadIdx, walkIdx, connections2, stack,
                   seen, warnings, ls, lsInner, lsIn, args, result, myImportAllTypes>>

NextLane == SetLaneAttributes

\* the lanes, types and options setLaneAttributes is called with (in 0.01 m)
LaneInputs ==
    [odWidth : {UNSPECIFIED_WIDTH, 0, 4, 170, 176, 179, 180, 200, 300},
     tcWidth : {UNSPECIFIED_WIDTH, 150, 320},
     tcPermissions : {{SVC_PASSENGER, SVC_EMERGENCY}, {"bicycle"}},
     widthResolution : {0, 10, 50},
     maxWidth : {0, 175, 300},
     myMinWidth : {0, 5, 180},
     myImportWidths : BOOLEAN,
     width : {UNSPECIFIED_WIDTH},
     permissions : {{}}]

InitLane ==
    /\ lane \in LaneInputs
    /\ pc = "lane"
    /\ edges = <<>> /\ nodeCont = {} /\ edgeCont = <<>> /\ l2l = {} /\ roadIdx = 1
    /\ walkIdx = 1 /\ connections2 = <<>> /\ stack = <<>> /\ seen = {}
    /\ warnings = {}
    /\ ls = <<>> /\ lsInner = FALSE /\ lsIn = <<>>
    /\ args = <<>> /\ result = <<>>
    /\ myImportAllTypes = FALSE

SpecLane == InitLane /\ [][NextLane]_vars

-----------------------------------------------------------------------------
(* revisitLaneSections: the lane sections of one road.  A lane section is    *)
(* its s and the offsets at which the speed of one of its lanes changes.     *)

\* the bound on the lane sections read for a road
MaxSections == 3

\* a lane section whose first right lane has speed entries at the offsets
\* (27.78 m/s each)
WithSpeeds(sec, offsets) ==
    [sec EXCEPT !.right[1].speeds = [k \in 1..Cardinality(offsets) |->
        <<(CHOOSE x \in offsets : Cardinality({y \in offsets : y < x}) = k - 1),
          2778>>]]

Section(s, offsets) ==
    WithSpeeds(LaneSection(s, <<Lane(-1, "driving", -1, -1)>>, <<>>, FALSE), offsets)

\* the elements of a set of numbers in increasing order (std::set<double>)
RECURSIVE Increasing(_)
Increasing(S) ==
    IF S = {} THEN <<>>
    ELSE LET m == CHOOSE x \in S : \A y \in S : x <= y
         IN  <<m>> \o Increasing(S \ {m})

\* same_position_finder: the entry is at the position
same_position(entry, pos) == entry[1] = pos

\* std::find_if over the speed entries from the k-th on: the speed of the
\* first entry at the position, 0 if there is none
RECURSIVE FindSpeed(_, _, _)
FindSpeed(speeds, k, pos) ==
    IF k > Len(speeds) THEN 0
    ELSE IF same_position(speeds[k], pos) THEN speeds[k][2]
         ELSE FindSpeed(speeds, k + 1, pos)

\* lines 1607-1622: the speed of each lane is that of its entry at startPos
ResetSpeeds(lanes, startPos) ==
    [k \in 1..Len(lanes) |-> [lanes[k] EXCEPT !.speed = FindSpeed(lanes[k].speeds, 1, startPos)]]

\* OpenDriveLaneSection::buildLaneSection: a copy that starts at startPos
buildLaneSection(sec, startPos) ==
    [sec EXCEPT !.s = @ + startPos,
                !.right = ResetSpeeds(@, startPos),
                !.left = ResetSpeeds(@, startPos)]

\* lines 1631-1648: the positions of the speed entries of the lanes
speedChangePositions(sec) ==
    UNION {{sec.right[k].speeds[n][1] : n \in 1..Len(sec.right[k].speeds)} :
              k \in 1..Len(sec.right)}
    \cup UNION {{sec.left[k].speeds[n][1] : n \in 1..Len(sec.left[k].speeds)} :
                    k \in 1..Len(sec.left)}

\* lines 1634-1636: the last entry at 0 of a lane sets its speed
RECURSIVE InitialSpeed(_, _, _)
InitialSpeed(speeds, k, speed) ==
    IF k > Len(speeds) THEN speed
    ELSE InitialSpeed(speeds, k + 1, IF speeds[k][1] = 0 THEN speeds[k][2] ELSE speed)

InitialSpeeds(lanes) ==
    [k \in 1..Len(lanes) |-> [lanes[k] EXCEPT !.speed = InitialSpeed(lanes[k].speeds, 1, @)]]

\* lines 1672-1678 for the lanes of one side of the i-th new section; for
\* the first section the value of tc.getSpeed is not assigned
PropagateLanes(lanes, before, i) ==
    [j \in 1..Len(lanes) |->
        IF lanes[j].speed # 0 THEN lanes[j]
        ELSE IF i > 1 THEN [lanes[j] EXCEPT !.speed = before[j].speed]
             ELSE lanes[j]]

\* lines 1665-1685: propagate speeds, from the i-th new section on
RECURSIVE PropagateSpeeds(_, _)
PropagateSpeeds(newSections, i) ==
    IF i > Len(newSections) THEN newSections
    ELSE PropagateSpeeds(
            [newSections EXCEPT
                ![i].right = PropagateLanes(@, IF i > 1 THEN newSections[i - 1].right
                                                ELSE <<>>, i),
                ![i].left = PropagateLanes(@, IF i > 1 THEN newSections[i - 1].left
                                               ELSE <<>>, i)],
            i + 1)

\* buildSpeedChanges that does not add the position 0
buildSpeedChangesNoZero(sec) ==
    IF speedChangePositions(sec) = {} THEN <<>>
    ELSE LET this == [sec EXCEPT !.right = InitialSpeeds(@), !.left = InitialSpeeds(@)]
             pos == Increasing(speedChangePositions(sec))
         IN  PropagateSpeeds([k \in 1..Len(pos) |->
                                 IF k = 1 THEN this ELSE buildLaneSection(this, pos[k])], 1)

\* OpenDriveLaneSection::buildSpeedChanges: the sections a section is split
\* into (it returns true), none if no speed changes in it (it returns false)
buildSpeedChanges(sec) ==
    IF speedChangePositions(sec) = {} THEN <<>>
    ELSE LET this == [sec EXCEPT !.right = InitialSpeeds(@), !.left = InitialSpeeds(@)]
             pos == Increasing(IF \A x \in speedChangePositions(sec) : x > 0
                               THEN speedChangePositions(sec) \cup {0}
                               ELSE speedChangePositions(sec))
         IN  PropagateSpeeds([k \in 1..Len(pos) |->
                                 IF k = 1 THEN this ELSE buildLaneSection(this, pos[k])], 1)

\* lines 1242-1251: split by speed limits
RECURSIVE SplitBySpeed(_, _)
SplitBySpeed(secs, k) ==
    IF k > Len(secs) THEN <<>>
    ELSE (IF buildSpeedChanges(secs[k]) = <<>> THEN <<secs[k]>>
          ELSE buildSpeedChanges(secs[k])) \o SplitBySpeed(secs, k + 1)

\* lines 1255-1263: each s is above the one before, the first above -1
IsSorted(secs) ==
    \A k \in 1..Len(secs) : secs[k].s > (IF k = 1 THEN -100 ELSE secs[k - 1].s)

\* the orders std::sort with sections_by_s_sorter may leave the sections in
RECURSIVE SortedOrders(_)
SortedOrders(secs) ==
    IF secs = <<>> THEN {<<>>}
    ELSE UNION {{SubSeq(q, 1, i) \o <<Head(secs)>> \o SubSeq(q, i + 1, Len(q)) :
                    i \in {j \in 0..Len(q) :
                              /\ j = 0 \/ q[j].s <= Head(secs).s
                              /\ j = Len(q) \/ Head(secs).s <= q[j + 1].s}} :
                q \in SortedOrders(Tail(secs))}

Abs(x) == IF x < 0 THEN -x ELSE x

\* DropDuplicates for inner roads as for outer roads
RECURSIVE DropDuplicatesAlways(_, _, _, _)
DropDuplicatesAlways(secs, k, lastS, isInner) ==
    IF k > Len(secs) THEN <<>>
    ELSE (IF Abs(secs[k].s - lastS) < POSITION_EPS THEN <<>> ELSE <<secs[k]>>)
         \o DropDuplicatesAlways(secs, k + 1, secs[k].s, isInner)

\* lines 1269-1282: a section whose s is almost that of the one before is
\* removed unless the road is an inner road
RECURSIVE DropDuplicates(_, _, _, _)
DropDuplicates(secs, k, lastS, isInner) ==
    IF k > Len(secs) THEN <<>>
    ELSE (IF Abs(secs[k].s - lastS) < POSITION_EPS /\ ~isInner THEN <<>> ELSE <<secs[k]>>)
         \o DropDuplicates(secs, k + 1, secs[k].s, isInner)

\* NIImporter_OpenDrive::revisitLaneSections for one road
RevisitLaneSections ==
    /\ pc = "revisit"
    /\ LET newSections == SplitBySpeed(ls, 1)
       IN  \E q \in (IF IsSorted(newSections) THEN {newSections}
                      ELSE SortedOrders(newSections)) :
              /\ ls' = DropDuplicates(q, 1, -100, lsInner)
              /\ warnings' = IF IsSorted(newSections) THEN warnings
                             ELSE warnings \cup {[kind |-> "unsorted", a |-> "", b |-> ""]}
    /\ pc' = "revisited"
    /\ UNCHANGED <<edges, nodeCont, edgeCont, l2l, roadIdx, walkIdx, connections2, stack,
                   seen, lsInner, lsIn, lane, args, result, myImportAllTypes>>

NextReshape == RevisitLaneSections

\* the lane sections as read: s and speed offsets in 0.01 m
SectionInputs == {Section(s, sp) : s \in {0, 5, 10, 100}, sp \in {{}, {5}, {0, 100}}}

RECURSIVE SeqsUpTo(_, _)
SeqsUpTo(S, n) ==
    IF n = 0 THEN {<<>>}
    ELSE SeqsUpTo(S, n - 1) \cup {Append(q, x) : q \in {p \in SeqsUpTo(S, n - 1) : Len(p) = n - 1},
                                                  x \in S}

InitReshape ==
    /\ lsIn \in SeqsUpTo(SectionInputs, MaxSections)
    /\ ls = lsIn
    /\ lsInner \in BOOLEAN
    /\ pc = "revisit"
    /\ edges = <<>> /\ nodeCont = {} /\ edgeCont = <<>> /\ l2l = {} /\ roadIdx = 1
    /\ walkIdx = 1 /\ connections2 = <<>> /\ stack = <<>> /\ seen = {}
    /\ warnings = {}
    /\ lane = <<>>
    /\ args = <<>> /\ result = <<>>
    /\ myImportAllTypes = FALSE

SpecReshape == InitReshape /\ [][NextReshape]_vars

-----------------------------------------------------------------------------
(* laneSectionsConnected called on its own *)

\* the variables that a function called on its own leaves alone
callFrame == <<edges, nodeCont, edgeCont, l2l, roadIdx, walkIdx, connections2, stack,
               seen, warnings, ls, lsInner, lsIn, lane, args, myImportAllTypes>>

\* laneSectionsConnected(edge, in, out)
LaneSectionsConnectedCall ==
    /\ pc = "connected"
    /\ result' = [value |-> laneSectionsConnected(args.edge, args.in, args.out)]
    /\ pc' = "returned"
    /\ UNCHANGED callFrame

NextConnected == LaneSectionsConnectedCall

\* a lane section with the right lanes -1 and -2 in either order of the file,
\* with any successors, and the left lanes 1 and 2
LinkedSections(s) ==
    {LaneSection(s, IF swap THEN <<Lane(-2, "driving", -2, s2), Lane(-1, "driving", -1, s1)>>
                    ELSE <<Lane(-1, "driving", -1, s1), Lane(-2, "driving", -2, s2)>>,
                 <<Lane(1, "driving", 1, 1), Lane(2, "driving", 2, 1)>>, FALSE) :
        swap \in BOOLEAN, s1 \in RightRefs, s2 \in RightRefs}

\* the last lane section of the road: its successors are not read
LastSection(s) == LaneSection(s, DrivingLanes(<<-1, -2>>, <<-1, -2>>), PlainLeft, FALSE)

\* the lane sections of a road with two or three lane sections
LinkedRoads ==
    {<<s1, LastSection(100)>> : s1 \in LinkedSections(0)}
    \cup {<<s1, s2, LastSection(200)>> : s1 \in LinkedSections(0), s2 \in LinkedSections(100)}

InitConnected ==
    /\ \E secs \in LinkedRoads, in \in {-1, -2, 1, 2}, out \in {-1, -2, 1, UNSET_CONNECTION} :
          args = [edge |-> Road("X", "J", 300, <<0, 300>>, secs, <<>>, {}),
                  in |-> in, out |-> out]
    /\ pc = "connected"
    /\ edges = <<>> /\ nodeCont = {} /\ edgeCont = <<>> /\ l2l = {} /\ roadIdx = 1
    /\ walkIdx = 1 /\ connections2 = <<>> /\ stack = <<>> /\ seen = {}
    /\ warnings = {}
    /\ ls = <<>> /\ lsInner = FALSE /\ lsIn = <<>> /\ lane = <<>>
    /\ result = <<>>
    /\ myImportAllTypes = FALSE

SpecConnected == InitConnected /\ [][NextConnected]_vars

-----------------------------------------------------------------------------
(* getInnerConnections called on its own *)

\* cur.getInnerConnections(dir, prev)
GetInnerConnectionsCall ==
    /\ pc = "inner"
    /\ result' = [value |-> getInnerConnections(args.cur, args.isLeft, args.prev)]
    /\ pc' = "returned"
    /\ UNCHANGED callFrame

NextInner == GetInnerConnectionsCall

\* two lane sections that follow each other, and the direction asked for
InnerInputs ==
    {[prev |-> LaneSection(0, r1, <<>>, myImportAllTypes),
      cur |-> LaneSection(200, r2, <<>>, myImportAllTypes), isLeft |-> FALSE] :
        r1 \in FirstRight, r2 \in SecondRight}
    \cup {[prev |-> LaneSection(0, PlainRight, <<Lane(1, "driving", 1, 1), Lane(2, t, 2, 2)>>,
                                myImportAllTypes),
            cur |-> LaneSection(200, PlainRight, l, myImportAllTypes), isLeft |-> TRUE] :
            t \in LaneTypes, l \in LeftLanes}

InitInner ==
    /\ myImportAllTypes \in BOOLEAN
    /\ args \in InnerInputs
    /\ pc = "inner"
    /\ edges = <<>> /\ nodeCont = {} /\ edgeCont = <<>> /\ l2l = {} /\ roadIdx = 1
    /\ walkIdx = 1 /\ connections2 = <<>> /\ stack = <<>> /\ seen = {}
    /\ warnings = {}
    /\ ls = <<>> /\ lsInner = FALSE /\ lsIn = <<>> /\ lane = <<>>
    /\ result = <<>>

SpecInner == InitInner /\ [][NextInner]_vars

-----------------------------------------------------------------------------
(* revisitLaneSections for a road of one lane section with its lanes, and    *)
(* what laneSectionsConnected and getInnerConnections find afterwards        *)

\* laneSectionsConnected(edge, in, out) for the revisited road
ConnectedAfterRevisit ==
    /\ pc = "revisited" /\ args # <<>> /\ args.fn = "laneSectionsConnected"
    /\ result' = [value |-> laneSectionsConnected([laneSections |-> ls], args.in, args.out)]
    /\ pc' = "returned"
    /\ UNCHANGED callFrame

\* lines 435 and 471: getInnerConnections of each lane section of the
\* revisited road with the section before it
InnerAfterRevisit ==
    /\ pc = "revisited" /\ args # <<>> /\ args.fn = "getInnerConnections"
    /\ result' = [value |-> [k \in 1..(Len(ls) - 1) |->
                                [right |-> getInnerConnections(ls[k + 1], FALSE, ls[k]),
                                 left |-> getInnerConnections(ls[k + 1], TRUE, ls[k])]]]
    /\ pc' = "returned"
    /\ UNCHANGED callFrame

NextSplit == RevisitLaneSections \/ ConnectedAfterRevisit \/ InnerAfterRevisit

\* the offsets of the speed entries of the lanes of a lane section
SpeedOffsets == {{}, {0}, {5000}, {0, 5000}, {5000, 10000}}

\* an inner road of one lane section, any successors of its right lanes, and
\* the lanes asked for
InitSplitInner ==
    /\ \E s1 \in RightRefs, s2 \in RightRefs, sp \in SpeedOffsets :
          lsIn = <<WithSpeeds(LaneSection(0, <<Lane(-1, "driving", -1, s1),
                                               Lane(-2, "driving", -2, s2)>>,
                                          PlainLeft, FALSE), sp)>>
    /\ lsInner = TRUE
    /\ \E in \in {-1, -2, 1}, out \in {-1, -2, 1} :
          args = [fn |-> "laneSectionsConnected", in |-> in, out |-> out]

\* an outer road of one lane section, any predecessors and types of its lanes
InitSplitOuter ==
    /\ \E p1 \in RightRefs, p2 \in RightRefs, t \in LaneTypes, l \in LeftLanes,
           sp \in SpeedOffsets :
          lsIn = <<WithSpeeds(LaneSection(0, <<Lane(-1, t, p1, -1),
                                               Lane(-2, "driving", p2, -2)>>,
                                          l, FALSE), sp)>>
    /\ lsInner = FALSE
    /\ args = [fn |-> "getInnerConnections"]

InitSplit ==
    /\ InitSplitInner \/ InitSplitOuter
    /\ ls = lsIn
    /\ pc = "revisit"
    /\ edges = <<>> /\ nodeCont = {} /\ edgeCont = <<>> /\ l2l = {} /\ roadIdx = 1
    /\ walkIdx = 1 /\ connections2 = <<>> /\ stack = <<>> /\ seen = {}
    /\ warnings = {}
    /\ lane = <<>>
    /\ result = <<>>
    /\ myImportAllTypes = FALSE

SpecSplit == InitSplit /\ [][NextSplit]_vars

-----------------------------------------------------------------------------
(* buildSpeedChanges called on its own *)

\* buildSpeedChanges(tc, newSections) for the lane section args.sec
BuildSpeedChangesCall ==
    /\ pc = "speeds"
    /\ result' = [value |-> buildSpeedChanges(args.sec) # <<>>,
                  newSections |-> buildSpeedChanges(args.sec)]
    /\ pc' = "returned"
    /\ UNCHANGED callFrame

NextSpeeds == BuildSpeedChangesCall

\* the speed entries of a lane: two at most, at any of three offsets
SpeedEntry == {<<o, v>> : o \in {0, 5000, 10000}, v \in {1389, 2778}}
SpeedEntries == {<<>>} \cup {<<x>> : x \in SpeedEntry}
                \cup {<<x, y>> : x \in SpeedEntry, y \in SpeedEntry}

\* a lane section with a right and a left lane and their speed entries
SpeedInputs ==
    {[sec |-> LaneSection(s0, <<[Lane(-1, "driving", -1, -1) EXCEPT !.speeds = r]>>,
                          <<[Lane(1, t, 1, 1) EXCEPT !.speeds = l]>>, myImportAllTypes)] :
        s0 \in {0, 2000}, t \in LaneTypes, r \in SpeedEntries, l \in SpeedEntries}

InitSpeeds ==
    /\ myImportAllTypes = FALSE
    /\ args \in SpeedInputs
    /\ pc = "speeds"
    /\ edges = <<>> /\ nodeCont = {} /\ edgeCont = <<>> /\ l2l = {} /\ roadIdx = 1
    /\ walkIdx = 1 /\ connections2 = <<>> /\ stack = <<>> /\ seen = {}
    /\ warnings = {}
    /\ ls = <<>> /\ lsInner = FALSE /\ lsIn = <<>> /\ lane = <<>>
    /\ result = <<>>

SpecSpeeds == InitSpeeds /\ [][NextSpeeds]_vars

-----------------------------------------------------------------------------
(* buildLaneMapping called on its own *)

\* buildLaneMapping(tc) for a lane section with the lanes args.right and
\* args.left as the parser leaves it
BuildLaneMappingCall ==
    /\ pc = "mapping"
    /\ result' = [section |-> buildLaneMapping(
                                 [s |-> 0, right |-> args.right, left |-> args.left,
                                  laneMap |-> <<>>, rightLaneNumber |-> 0,
                                  leftLaneNumber |-> 0, sumoID |-> <<>>],
                                 myImportAllTypes)]
    /\ pc' = "returned"
    /\ UNCHANGED callFrame

NextMapping == BuildLaneMappingCall

\* lane types: known, known and discarded, not known
MappingTypes == {"driving", "none", "tram"}

\* the lanes of a side stored from the centre outward: n lanes of any types
StoredLanes(n, sign) ==
    {[k \in 1..n |-> Lane(sign * k, t[k], sign * k, sign * k)] : t \in [1..n -> MappingTypes]}

InitMapping ==
    /\ myImportAllTypes \in BOOLEAN
    /\ \E nr \in 0..3, nl \in 0..2 :
          \E r \in StoredLanes(nr, -1), l \in StoredLanes(nl, 1) :
              args = [right |-> r, left |-> l]
    /\ pc = "mapping"
    /\ edges = <<>> /\ nodeCont = {} /\ edgeCont = <<>> /\ l2l = {} /\ roadIdx = 1
    /\ walkIdx = 1 /\ connections2 = <<>> /\ stack = <<>> /\ seen = {}
    /\ warnings = {}
    /\ ls = <<>> /\ lsInner = FALSE /\ lsIn = <<>> /\ lane = <<>>
    /\ result = <<>>

SpecMapping == InitMapping /\ [][NextMapping]_vars

-----------------------------------------------------------------------------
(* The handlers of the parser: myStartElement and myEndElement. args.events  *)
(* is the stream of the elements read, edges is myEdges and result holds the *)
(* members of the handler and the position in the stream.                    *)

parseFrame == <<nodeCont, edgeCont, l2l, roadIdx, walkIdx, connections2, stack, seen,
                ls, lsInner, lsIn, lane, args, myImportAllTypes>>

\* the element the handlers are called for
CurrentEvent == args.events[result.pos]

\* the step to the next element, or the end of the document
Advance(members) ==
    /\ result' = [members EXCEPT !.pos = @ + 1]
    /\ pc' = IF result.pos = Len(args.events) THEN "parsed" ELSE "parse"
    /\ UNCHANGED parseFrame

\* lines 1924-1926 and 2086-2087: the connection is inserted for its incoming road
InsertConnection(c) == [edges EXCEPT ![c.fromEdge].connections = SetInsert(@, c)]

\* myEndElement, line 2071-2073: the end of a road element
EndRoad ==
    /\ pc = "parse" /\ CurrentEvent.tag = "road"
    /\ edges' = MapPut(edges, CurrentEvent.id,
                       Road(CurrentEvent.id, CurrentEvent.junction, 400, <<0, 400>>,
                            <<LaneSection(0, PlainRight, <<>>, myImportAllTypes)>>, <<>>, {}))
    /\ warnings' = warnings
    /\ Advance(result)

\* myStartElement, lines 1901-1908: a connection element of a junction
StartConnection ==
    /\ pc = "parse" /\ CurrentEvent.tag = "connection"
    /\ UNCHANGED <<edges, warnings>>
    /\ Advance([result EXCEPT !.myCurrentIncomingRoad = CurrentEvent.incomingRoad,
                              !.myCurrentConnectingRoad = CurrentEvent.connectingRoad,
                              !.myCurrentContactPoint = CurrentEvent.contactPoint,
                              !.myConnectionWasEmpty = TRUE])

\* myStartElement, lines 1910-1929: a laneLink element
StartLaneLink ==
    /\ pc = "parse" /\ CurrentEvent.tag = "laneLink"
    /\ LET c == Connection(result.myCurrentIncomingRoad, CurrentEvent.from, OPENDRIVE_CP_END,
                           result.myCurrentConnectingRoad, CurrentEvent.to,
                           result.myCurrentContactPoint, FALSE)
       IN  IF c.fromEdge \notin DOMAIN edges
           THEN /\ warnings' = warnings \cup {[kind |-> "incomingUnknown", a |-> c.fromEdge,
                                                b |-> ""]}
                /\ edges' = edges
                /\ Advance(result)
           ELSE /\ edges' = InsertConnection(c)
                /\ warnings' = warnings
                /\ Advance([result EXCEPT !.myConnectionWasEmpty = FALSE])

\* myEndElement, lines 2074-2090: the end of a connection element
EndConnection ==
    /\ pc = "parse" /\ CurrentEvent.tag = "/connection"
    /\ LET c == Connection(result.myCurrentIncomingRoad, 0, OPENDRIVE_CP_END,
                           result.myCurrentConnectingRoad, 0,
                           result.myCurrentContactPoint, TRUE)
       IN  IF ~result.myConnectionWasEmpty
           THEN UNCHANGED <<edges, warnings>>
           ELSE IF c.fromEdge \notin DOMAIN edges
                THEN /\ warnings' = warnings \cup {[kind |-> "incomingUnknown",
                                                     a |-> c.fromEdge, b |-> ""]}
                     /\ edges' = edges
                ELSE /\ edges' = InsertConnection(c)
                     /\ warnings' = warnings
    /\ Advance(result)

NextParse == EndRoad \/ StartConnection \/ StartLaneLink \/ EndConnection

\* the elements of a junction with one connection: the incoming road, the
\* contact point and the laneLinks
JunctionElements ==
    {<<[tag |-> "connection", incomingRoad |-> r, connectingRoad |-> "X",
        contactPoint |-> cp]>>
     \o links \o <<[tag |-> "/connection"]>> :
        r \in {"A", "C"}, cp \in {OPENDRIVE_CP_START, OPENDRIVE_CP_END},
        links \in {<<>>, <<[tag |-> "laneLink", from |-> -1, to |-> -1]>>,
                   <<[tag |-> "laneLink", from |-> -1, to |-> -1],
                     [tag |-> "laneLink", from |-> -2, to |-> -1]>>}}

\* the road elements of the document, in the order read
RoadElements ==
    <<[tag |-> "road", id |-> "A", junction |-> "-1"],
      [tag |-> "road", id |-> "B", junction |-> "-1"],
      [tag |-> "road", id |-> "X", junction |-> "J"]>>

\* the document: the junction before, between or after the road elements
InitParse ==
    /\ \E j \in JunctionElements, k \in 0..Len(RoadElements) :
          args = [events |-> SubSeq(RoadElements, 1, k) \o j
                             \o SubSeq(RoadElements, k + 1, Len(RoadElements))]
    /\ result = [pos |-> 1, myCurrentIncomingRoad |-> "", myCurrentConnectingRoad |-> "",
                 myCurrentContactPoint |-> OPENDRIVE_CP_END, myConnectionWasEmpty |-> FALSE]
    /\ pc = "parse"
    /\ myImportAllTypes = FALSE
    /\ edges = <<>> /\ nodeCont = {} /\ edgeCont = <<>> /\ l2l = {} /\ roadIdx = 1
    /\ walkIdx = 1 /\ connections2 = <<>> /\ stack = <<>> /\ seen = {}
    /\ warnings = {}
    /\ ls = <<>> /\ lsInner = FALSE /\ lsIn = <<>> /\ lane = <<>>

SpecParse == InitParse /\ [][NextParse]_vars

-----------------------------------------------------------------------------
(* computeShapes for roads of line segments without elevations and lateral   *)
(* offsets. args.geometries holds the vertices of the segments of each road, *)
(* args.fails the positions the projection cannot convert.                   *)

\* lines 1129-1143: the vertices of the segments from the k-th on are added;
\* a segment has one or two vertices
RECURSIVE AddSegments(_, _, _, _)
AddSegments(id, segs, k, st) ==
    IF k > Len(segs) THEN st
    ELSE LET mismatch == Len(st.geom) > 0 /\ k > 1 /\ st.geom[Len(st.geom)] # segs[k][1]
             g0 == IF Len(st.geom) > 0 /\ k > 1 THEN SubSeq(st.geom, 1, Len(st.geom) - 1)
                   ELSE st.geom
             g1 == IF Len(segs[k]) = 1 THEN push_back_noDoublePos(g0, segs[k][1])
                   ELSE push_back_noDoublePos(push_back_noDoublePos(g0, segs[k][1]),
                                              segs[k][2])
         IN  AddSegments(id, segs, k + 1,
                 [geom |-> g1, last |-> segs[k][Len(segs[k])],
                  msgs |-> IF mismatch
                           THEN st.msgs \cup {[level |-> "warning", kind |-> "mismatch",
                                               a |-> id]}
                           ELSE st.msgs])

\* the conversion of one position by the projection: the network offset is added
transformCoordinate(p) == p - 1000

\* NBNetBuilder::transformCoordinates: the vertices are converted in order up
\* to the first one that cannot be converted
transformCoordinates(g, fails) ==
    LET bad == {i \in 1..Len(g) : g[i] \in fails}
        stop == IF bad = {} THEN Len(g) + 1 ELSE CHOOSE i \in bad : \A x \in bad : i <= x
    IN  [ok |-> bad = {},
         geom |-> [i \in 1..Len(g) |-> IF i < stop THEN transformCoordinate(g[i]) ELSE g[i]]]

\* lines 1100-1149 for one road: the polyline of the segments and the messages
polylineOf(id, segs) ==
    LET built == AddSegments(id, segs, 1, [geom |-> <<>>, last |-> 0, msgs |-> {}])
    IN  [geom |-> IF Len(built.geom) = 1 /\ built.geom[1] # built.last
                  THEN Append(built.geom, built.last) ELSE built.geom,
         msgs |-> built.msgs]

\* lines 1100-1155 for one road: the polyline of the road and the messages written
shapeOf(id, segs, fails) ==
    LET built == polylineOf(id, segs)
        t == transformCoordinates(built.geom, fails)
    IN  [geom |-> t.geom,
         msgs |-> IF t.ok THEN built.msgs
                  ELSE built.msgs \cup {[level |-> "error", kind |-> "project", a |-> id]}]

\* one turn of the loop of line 1100
ComputeShapes ==
    /\ pc = "shapes" /\ roadIdx <= Cardinality(Roads)
    /\ LET r == Ordered(Roads)[roadIdx]
           sh == shapeOf(r, args.geometries[r], args.fails)
       IN  /\ edges' = [edges EXCEPT ![r].geom = sh.geom]
           /\ warnings' = warnings \cup sh.msgs
    /\ roadIdx' = roadIdx + 1
    /\ pc' = IF roadIdx = Cardinality(Roads) THEN "returned" ELSE "shapes"
    /\ UNCHANGED <<nodeCont, edgeCont, l2l, walkIdx, connections2, stack, seen,
                   ls, lsInner, lsIn, lane, args, result, myImportAllTypes>>

NextShapes == ComputeShapes

\* the segments of a road that starts at the position p
SegmentChoices(p) ==
    {<<>>, <<<<p, p + 400>>>>, <<<<p, p + 200>>, <<p + 200, p + 400>>>>,
     <<<<p, p + 200>>, <<p + 210, p + 400>>>>, <<<<p, p>>>>, <<<<p>>, <<p, p + 400>>>>}

InitShapes ==
    /\ \E ga \in SegmentChoices(0), gb \in SegmentChoices(2000), f \in SUBSET {0, 400, 2200} :
          args = [geometries |-> [r \in {"A", "B"} |-> IF r = "A" THEN ga ELSE gb],
                  fails |-> f]
    /\ edges = [r \in {"A", "B"} |->
                    Road(r, "-1", 400, <<>>,
                         <<LaneSection(0, PlainRight, <<>>, FALSE)>>, <<>>, {})]
    /\ pc = "shapes"
    /\ roadIdx = 1
    /\ myImportAllTypes = FALSE
    /\ nodeCont = {} /\ edgeCont = <<>> /\ l2l = {}
    /\ walkIdx = 1 /\ connections2 = <<>> /\ stack = <<>> /\ seen = {}
    /\ warnings = {}
    /\ ls = <<>> /\ lsInner = FALSE /\ lsIn = <<>> /\ lane = <<>> /\ result = <<>>

SpecShapes == InitShapes /\ [][NextShapes]_vars

-----------------------------------------------------------------------------
(* splitMinWidths called on its own *)

\* lane types that allow vehicles other than pedestrians and bicycles
tcPassenger == {"driving"}

\* findWidthSplit: the positions at which the width of a lane crosses
\* myMinWidth; cross[id] are the offsets the scan of the width entries of the
\* lane id arrives at
RECURSIVE findWidthSplit(_, _, _, _)
findWidthSplit(lanes, k, sectionStart, cross) ==
    IF k > Len(lanes) THEN <<>>
    ELSE (IF /\ lanes[k].type \in tcKnown
             /\ lanes[k].type \notin tcDiscard
             /\ lanes[k].type \in tcPassenger
          THEN [n \in 1..Len(Increasing(cross[lanes[k].id])) |->
                   sectionStart + Increasing(cross[lanes[k].id])[n]]
          ELSE <<>>)
         \o findWidthSplit(lanes, k + 1, sectionStart, cross)

\* std::sort of the split positions
RECURSIVE SortPositions(_)
SortPositions(pos) ==
    IF pos = <<>> THEN <<>>
    ELSE LET lo == CHOOSE n \in 1..Len(pos) : \A x \in 1..Len(pos) : pos[n] <= pos[x]
         IN  <<pos[lo]>> \o SortPositions(SubSeq(pos, 1, lo - 1) \o SubSeq(pos, lo + 1, Len(pos)))

\* lines 2185-2205: drop the splits that are near the split before or the
\* end of the section, and those before the section
RECURSIVE FilterSplits(_, _, _, _, _, _)
FilterSplits(pos, k, prevSplit, sec, sectionEnd, minDist) ==
    IF k > Len(pos) THEN <<>>
    ELSE IF pos[k] - prevSplit < minDist \/ sectionEnd - pos[k] < minDist
         THEN FilterSplits(pos, k + 1, prevSplit, sec, sectionEnd, minDist)
         ELSE IF pos[k] < sec.s
              THEN FilterSplits(pos, k + 1, prevSplit, sec, sectionEnd, minDist)
              ELSE <<pos[k]>> \o FilterSplits(pos, k + 1, pos[k], sec, sectionEnd, minDist)

\* setStraightConnections that leaves the predecessors as they are
setStraightConnectionsKeep(lanes) == lanes

\* NIImporter_OpenDrive::setStraightConnections
setStraightConnections(lanes) ==
    [k \in 1..Len(lanes) |-> [lanes[k] EXCEPT !.predecessor = lanes[k].id]]

\* lines 2223-2235: the lane section inserted at a split position
SectionAt(sec, p) ==
    [sec EXCEPT !.s = p,
                !.right = IF sec.rightLaneNumber > 0 THEN setStraightConnections(@) ELSE @,
                !.left = IF sec.leftLaneNumber > 0 THEN setStraightConnections(@) ELSE @]

\* lines 2165-2238 for the j-th lane section: the section and those inserted
SplitSection(e, j, sOrig, cross, minDist) ==
    LET sec == e.laneSections[j]
        sectionEnd == IF j = Len(e.laneSections) THEN e.length ELSE e.laneSections[j + 1].s
        found == (IF sec.rightLaneNumber > 0
                  THEN findWidthSplit(sec.right, 1, sOrig[j], cross[j]) ELSE <<>>)
                 \o (IF sec.leftLaneNumber > 0
                     THEN findWidthSplit(sec.left, 1, sOrig[j], cross[j]) ELSE <<>>)
        splitPositions == FilterSplits(SortPositions(found), 1, sec.s, sec, sectionEnd,
                                       minDist)
    IN  <<sec>> \o [k \in 1..Len(splitPositions) |-> SectionAt(sec, splitPositions[k])]

\* NIImporter_OpenDrive::splitMinWidths: the new lane sections of the road
RECURSIVE splitMinWidths(_, _, _, _, _)
splitMinWidths(e, j, sOrig, cross, minDist) ==
    IF j > Len(e.laneSections) THEN <<>>
    ELSE SplitSection(e, j, sOrig, cross, minDist)
         \o splitMinWidths(e, j + 1, sOrig, cross, minDist)

\* for each new lane section, the number of the lane section it is a copy of
\* and whether it was inserted at a split position
RECURSIVE SplitFrom(_, _, _, _, _)
SplitFrom(e, j, sOrig, cross, minDist) ==
    IF j > Len(e.laneSections) THEN <<>>
    ELSE [k \in 1..Len(SplitSection(e, j, sOrig, cross, minDist)) |->
              [section |-> j, inserted |-> k > 1]]
         \o SplitFrom(e, j + 1, sOrig, cross, minDist)

\* lines 379-389: the split of a road that starts and ends at the same node,
\* then splitMinWidths(e, tc, minDist); a copy made by the first split has
\* the sOrig and the widths of the lane section it is a copy of
SplitMinWidthsCall ==
    /\ pc = "widths"
    /\ LET e == SplitLoop(args.edge)
           sOrig == IF Len(e.laneSections) > Len(args.edge.laneSections)
                    THEN args.sOrig \o args.sOrig ELSE args.sOrig
           cross == IF Len(e.laneSections) > Len(args.edge.laneSections)
                    THEN args.cross \o args.cross ELSE args.cross
       IN  result' = [laneSections |-> splitMinWidths(e, 1, sOrig, cross, args.minDist),
                      from |-> SplitFrom(e, 1, sOrig, cross, args.minDist),
                      edge |-> e]
    /\ pc' = "returned"
    /\ UNCHANGED callFrame

NextWidths == SplitMinWidthsCall

\* the offsets at which the width of a lane crosses myMinWidth
CrossSets == {{}, {3000}, {0, 3000, 3050, 19950}}

\* opendrive.curve-resolution, in 0.01 m
MinDists == {0, 100}

\* a road of one lane section, any types and predecessors of its lanes
WidthInputsOne ==
    {[edge |-> [length |-> 20000, from |-> <<"n">>, to |-> <<"m">>,
                laneSections |-> <<LaneSection(0, r, l, myImportAllTypes)>>],
      sOrig |-> <<0>>,
      cross |-> <<[id \in {-2, -1, 1, 2} |->
                     IF id = -1 THEN c1 ELSE IF id = 1 THEN c2 ELSE {}]>>,
      minDist |-> d] :
        r \in SecondRight, l \in LeftLanes, c1 \in CrossSets, c2 \in CrossSets,
        d \in MinDists}

\* a road of two lane sections, the second one as read or from a speed split
WidthInputsTwo ==
    {[edge |-> [length |-> 20000, from |-> <<"n">>, to |-> <<"m">>,
                laneSections |-> <<LaneSection(0, PlainRight, PlainLeft, myImportAllTypes),
                                   LaneSection(10000, r, <<>>, myImportAllTypes)>>],
      sOrig |-> <<0, o>>,
      cross |-> <<[id \in {-2, -1, 1, 2} |-> IF id = 1 THEN c1 ELSE {}],
                  [id \in {-2, -1, 1, 2} |-> IF id = -1 THEN c2 ELSE {}]>>,
      minDist |-> d] :
        r \in SecondRight, o \in {0, 10000}, c1 \in CrossSets, c2 \in CrossSets,
        d \in MinDists}

\* a road that starts and ends at the same node: of one lane section and
\* any length, or of two lane sections
WidthInputsLoop ==
    {[edge |-> [length |-> len, from |-> <<"n">>, to |-> <<"n">>,
                laneSections |-> secs],
      sOrig |-> [k \in 1..Len(secs) |-> secs[k].s],
      cross |-> [k \in 1..Len(secs) |->
                    [id \in {-2, -1, 1, 2} |-> IF id = -1 THEN c1 ELSE {}]],
      minDist |-> d] :
        len \in {0, 5000, 20000},
        secs \in {<<LaneSection(0, PlainRight, PlainLeft, myImportAllTypes)>>,
                  <<LaneSection(0, PlainRight, PlainLeft, myImportAllTypes),
                    LaneSection(4000, PlainRight, <<>>, myImportAllTypes)>>},
        c1 \in CrossSets, d \in MinDists}

InitWidths ==
    /\ myImportAllTypes \in BOOLEAN
    /\ args \in WidthInputsOne \cup WidthInputsTwo \cup WidthInputsLoop
    /\ pc = "widths"
    /\ edges = <<>> /\ nodeCont = {} /\ edgeCont = <<>> /\ l2l = {} /\ roadIdx = 1
    /\ walkIdx = 1 /\ connections2 = <<>> /\ stack = <<>> /\ seen = {}
    /\ warnings = {}
    /\ ls = <<>> /\ lsInner = FALSE /\ lsIn = <<>> /\ lane = <<>>
    /\ result = <<>>

SpecWidths == InitWidths /\ [][NextWidths]_vars

-----------------------------------------------------------------------------
(* Properties of the flattening walk *)

Range(seq) == {seq[k] : k \in 1..Len(seq)}

\* every connection collected so far, in connections2 or in a pending `into`
Collected == Range(connections2) \cup UNION {Range(stack[k].into) : k \in 1..Len(stack)}

\* C1: every connection collected for emission, directly or by
\* buildConnectionsToOuter at any depth, has a toEdge that is not an inner road
C1_NoInnerToEdge == \A c \in Collected : ~IsInner(c.toEdge)

\* a connection found through two inner roads and a direct one were collected
C1_Witness ==
    /\ pc = "setconns"
    /\ \E c \in Range(connections2) : Len(c.chain) >= 2
    /\ \E c \in Range(connections2) : c.chain = <<>>

\* the inner roads a road's connections lead to
InnerNext(r) == {c.toEdge : c \in {d \in edges[r].connections : IsInner(d.toEdge)}}

RECURSIVE ReachFrom(_, _)
ReachFrom(S, n) ==
    IF n = 0 THEN S ELSE ReachFrom(S \cup UNION {InnerNext(r) : r \in S}, n - 1)

\* the inner roads reachable from the outer-to-inner connections
ReachableInner ==
    ReachFrom(UNION {InnerNext(r) : r \in outerEdges}, Cardinality(innerEdges))

OnCycle(r) == r \in ReachFrom(InnerNext(r), Cardinality(innerEdges))

CycleReachable == \E r \in ReachableInner : OnCycle(r)

NoRepeat(seq) == \A j, k \in 1..Len(seq) : j # k => seq[j] # seq[k]

\* C8: when the inner roads reachable from an outer-to-inner connection contain
\* a cycle, the walk warns of circular connections and emits no connection
\* whose chain traverses an inner road a second time
C8_NoEmissionThroughCycle ==
    (pc = "setconns" /\ CycleReachable) =>
        /\ \E w \in warnings : w.kind = "circular"
        /\ \A c \in Range(connections2) : NoRepeat(c.chain)

\* the seen set a call starts from: empty for the call of line 564
SeenBefore == IF stack = <<>> THEN {} ELSE seen

\* what is left to do, in lexicographic order: pending connections of the loop
\* at line 557, no walk running, connections not yet seen, pending loop steps
SumConts(k) == IF k = 0 THEN 0 ELSE Len(stack[k].conts)

RECURSIVE PendingSteps(_)
PendingSteps(k) == IF k = 0 THEN 0 ELSE 1 + SumConts(k) + PendingSteps(k - 1)

AllConnsSet == UNION {edges[r].connections : r \in Roads}

Measure ==
    <<IF pc = "connections" THEN 1 ELSE 0,
      Cardinality(AllConnsSet) + 1 - walkIdx,
      IF stack = <<>> THEN 1 ELSE 0,
      Cardinality({c \in AllConnsSet : SetCount(seen, c) = 0}),
      PendingSteps(Len(stack))>>

LexLess(a, b) ==
    \E k \in 1..Len(a) : a[k] < b[k] /\ \A j \in 1..(k - 1) : a[j] = b[j]

\* C9: every call of buildConnectionsToOuter adds to the seen set a connection
\* that was not in it, and every step of the walks decreases a measure that is
\* bounded below, whatever cycles the connections form: the walks terminate
C9_Terminates ==
    [][/\ Len(stack') > Len(stack) =>
           /\ SetCount(SeenBefore, stack'[Len(stack')].c) = 0
           /\ seen' = SeenBefore \cup {stack'[Len(stack')].c}
       /\ \A m \in {Measure}, n \in {Measure'} :
           /\ LexLess(n, m)
           /\ \A k \in 1..Len(n) : n[k] >= 0]_vars

\* the walks over a junction with a cycle have ended
C9_Witness == pc = "setconns" /\ CycleReachable /\ warnings # {}

\* the outer-to-inner connections: each starts a walk
TopConns == {c \in AllConnsSet : ~IsInner(c.fromEdge) /\ IsInner(c.toEdge)}

\* the connections of road r to inner roads and to outer roads
ToInnerOf(r) == {d \in edges[r].connections : IsInner(d.toEdge)}
ToOuterOf(r) == {d \in edges[r].connections : ~IsInner(d.toEdge)}

RECURSIVE ConnsFrom(_, _)
ConnsFrom(S, n) ==
    IF n = 0 THEN S ELSE ConnsFrom(S \cup UNION {ToInnerOf(e.toEdge) : e \in S}, n - 1)

\* the connections to inner roads that the walk started from c comes by
WalkConns(c) == ConnsFrom({c}, Cardinality(AllConnsSet))

\* the chains of connections from p on that pass no inner road twice
RECURSIVE ChainsFrom(_, _)
ChainsFrom(p, n) ==
    {p} \cup
    (IF n = 0 THEN {}
     ELSE UNION {ChainsFrom(Append(p, d), n - 1) :
                    d \in {x \in ToInnerOf(p[Len(p)].toEdge) :
                              \A k \in 1..Len(p) : p[k].toEdge # x.toEdge}})

AcyclicChains(c) == ChainsFrom(<<c>>, Cardinality(innerEdges))

\* the connections by which a chain that enters an inner road by e may leave
\* the junction
Leaving(e) ==
    {i \in ToOuterOf(e.toEdge) : laneSectionsConnected(edges[e.toEdge], e.toLane, i.fromLane)}

\* the connection that stands for a chain from c that enters its last inner
\* road by e and leaves it by i
Flattened(c, e, i) ==
    [i EXCEPT !.fromEdge = c.fromEdge, !.fromLane = c.fromLane, !.fromCP = c.fromCP,
              !.all = c.all, !.origID = e.toEdge, !.origLane = e.toLane]

\* a collected connection without the record of its chain
Plain(x) == [x EXCEPT !.chain = <<>>, !.inLanes = <<>>, !.outLanes = <<>>]

\* the walks, entering connections and leaving connections
WalkTriples ==
    {t \in TopConns \X AllConnsSet \X AllConnsSet :
        t[2] \in WalkConns(t[1]) /\ t[3] \in Leaving(t[2])}

\* an inner road of the walk from c that the walk enters by two connections
\* and that leads on to an inner road
Reconverges(c) ==
    \E d \in innerEdges :
        /\ Cardinality({e \in WalkConns(c) : e.toEdge = d}) >= 2
        /\ ToInnerOf(d) # {}

\* C14 (as the code has it): a walk expands every connection to an inner road
\* it comes by once, so the connection of every chain is emitted, once for each
\* walk, connection entering the last inner road and connection leaving it;
\* the warning is issued iff a walk comes by a connection to an inner road
\* twice, in a cycle or along two paths that meet
C14_EveryConnectionExpandedOnce ==
    pc = "setconns" =>
        /\ \A c \in TopConns : \A p \in AcyclicChains(c) : \A i \in Leaving(p[Len(p)]) :
              \E x \in Range(connections2) : Plain(x) = Flattened(c, p[Len(p)], i)
        /\ \A x \in Range(connections2) :
              \/ x \in ToOuterOf(x.fromEdge)
              \/ Cardinality({k \in 1..Len(connections2) : Plain(connections2[k]) = Plain(x)})
                    = Cardinality({t \in WalkTriples : Flattened(t[1], t[2], t[3]) = Plain(x)})
        /\ (\E w \in warnings : w.kind = "circular") <=> (\E c \in TopConns : Reconverges(c))

\* the inner roads X and Z both lead to Y, which leads on to W and B: no
\* cycle, a warning, and the connection over X, Y and W but not over X, Z, Y, W
C14_Witness ==
    /\ pc = "setconns" /\ ~CycleReachable
    /\ \E w \in warnings : w.kind = "circular"
    /\ \E x \in Range(connections2) : x.chain = <<"X", "Y", "W">>
    /\ \E c \in TopConns : \E p \in AcyclicChains(c) :
          /\ [k \in 1..Len(p) |-> p[k].toEdge] = <<"X", "Z", "Y", "W">>
          /\ Leaving(p[Len(p)]) # {}

\* C14: every acyclic chain whose last inner road connects its lanes is
\* expanded along its own path and yields an emitted connection, and the
\* warning is issued only if the inner roads form a cycle
C14_EveryPathExpanded ==
    pc = "setconns" =>
        /\ \A c \in TopConns : \A p \in AcyclicChains(c) : \A i \in Leaving(p[Len(p)]) :
              \E x \in Range(connections2) :
                 /\ Plain(x) = Flattened(c, p[Len(p)], i)
                 /\ x.chain = [k \in 1..Len(p) |-> p[k].toEdge]
        /\ (\E w \in warnings : w.kind = "circular") => CycleReachable

\* C15: at every inner road on the chain of a collected connection, the lane
\* by which the road is entered is connected by laneSectionsConnected to the
\* lane by which the chain leaves the road
C15_LaneConsistentChains ==
    \A x \in Collected : \A k \in 1..Len(x.chain) :
        laneSectionsConnected(edges[x.chain[k]], x.inLanes[k], x.outLanes[k])

\* C16: every connection that the walk started from c appends to connections2
\* has the fromEdge, fromLane, fromCP and `all` of c, an outer fromEdge, the
\* toEdge, toLane and toCP of the connection i to an outer road that ends its
\* chain, the inner road that i leaves as origID and the lane by which that
\* road was entered as origLane
C16_FieldsOfFlattened ==
    [][stack # <<>> =>
          \A k \in (Len(connections2) + 1)..Len(connections2') :
             LET x == connections2'[k]
                 c == stack[1].c
                 n == Len(x.chain)
             IN  /\ n >= 1
                 /\ x.fromEdge = c.fromEdge /\ x.fromLane = c.fromLane
                 /\ x.fromCP = c.fromCP /\ x.all = c.all
                 /\ ~IsInner(x.fromEdge)
                 /\ x.origID = x.chain[n] /\ x.origLane = x.inLanes[n]
                 /\ \E e \in WalkConns(c) : \E i \in ToOuterOf(e.toEdge) :
                       /\ e.toEdge = x.chain[n] /\ e.toLane = x.inLanes[n]
                       /\ i.fromLane = x.outLanes[n]
                       /\ x.toEdge = i.toEdge /\ x.toLane = i.toLane /\ x.toCP = i.toCP
                       /\ Plain(x) = Flattened(c, e, i)
      ]_vars

\* the walk from road A has appended a connection of a chain through three
\* inner roads, the last of them W
C16_Witness ==
    /\ stack # <<>>
    /\ \E x \in Range(connections2) :
          /\ Len(x.chain) = 3 /\ x.origID = "W" /\ x.fromEdge = "A" /\ x.toEdge = "B"

-----------------------------------------------------------------------------
(* Properties of the emitted edges *)

\* the edges emitted for road r
EdgesOf(r) == {id \in DOMAIN edgeCont : edgeCont[id].road = r}

\* the roads the loop at line 352 is through with and did not ignore
Built(r) ==
    /\ r \in outerEdges
    /\ pc \in {"edges", "connections", "setconns", "done"}
    /\ \E k \in 1..Len(Ordered(outerEdges)) : Ordered(outerEdges)[k] = r /\ (pc = "edges" => k < roadIdx)
    /\ Len(edges[r].geom) >= 2

\* C3: edges are emitted only for outer roads whose polyline has two vertices
\* at least; every emitted edge has a polyline of two vertices at least and a
\* from-node and a to-node that are not null and are in the node container
C3_EdgesWellFormed ==
    \A id \in DOMAIN edgeCont :
        LET ed == edgeCont[id]
        IN  /\ ed.road \in outerEdges
            /\ Len(edges[ed.road].geom) >= 2
            /\ Len(ed.geom) >= 2
            /\ ed.from # NULL /\ ed.from \in nodeCont
            /\ ed.to # NULL /\ ed.to \in nodeCont

\* a road without polyline was ignored and a road of two lane sections got
\* the edges of both directions of both sections
C3_Witness ==
    /\ pc = "done"
    /\ \E w \in warnings : w.kind = "nogeom"
    /\ \E r \in outerEdges : Cardinality(EdgesOf(r)) = 4

\* the suffix of the edges of the k-th lane section of road r
Suffix(r, k) ==
    IF Len(edges[r].laneSections) = 1 THEN "0.00" ELSE toString(edges[r].laneSections[k].s)

RightEdgeID(r, k) == <<"-", r, ".", Suffix(r, k)>>
LeftEdgeID(r, k) == <<r, ".", Suffix(r, k)>>

\* the edges a built road is to have
ExpectedEdges(r) ==
    {RightEdgeID(r, k) : k \in {j \in 1..Len(edges[r].laneSections) :
                                   edges[r].laneSections[j].rightLaneNumber > 0}}
    \cup {LeftEdgeID(r, k) : k \in {j \in 1..Len(edges[r].laneSections) :
                                       edges[r].laneSections[j].leftLaneNumber > 0}}

\* C6 (as the code has it): the edges of a built outer road always carry a
\* suffix: with exactly one lane section at emission they are <roadId>.0.00
\* (left) and -<roadId>.0.00 (right), whatever the s of the section; with
\* more sections the suffix is the start arclength of the section
C6_SectionSuffix ==
    \A r \in outerEdges :
        /\ Built(r) /\ pc # "error" => EdgesOf(r) = ExpectedEdges(r)
        /\ \A id \in EdgesOf(r) : \E k \in 1..Len(edges[r].laneSections) :
               /\ id \in {RightEdgeID(r, k), LeftEdgeID(r, k)}
               /\ id = RightEdgeID(r, k) =>
                      /\ edgeCont[id].numLanes = edges[r].laneSections[k].rightLaneNumber
                      /\ k = 1 => edgeCont[id].from = edges[r].from
                      /\ k = Len(edges[r].laneSections) => edgeCont[id].to = edges[r].to
               /\ id = LeftEdgeID(r, k) =>
                      /\ edgeCont[id].numLanes = edges[r].laneSections[k].leftLaneNumber
                      /\ k = 1 => edgeCont[id].to = edges[r].from
                      /\ k = Len(edges[r].laneSections) => edgeCont[id].from = edges[r].to

\* a road of one lane section that does not start at s = 0 was emitted in
\* both directions, and so was a road of two sections
C6_Witness ==
    /\ pc = "done"
    /\ \E r \in outerEdges :
          /\ Len(edges[r].laneSections) = 1 /\ edges[r].laneSections[1].s # 0
          /\ EdgesOf(r) = {<<r, ".", "0.00">>, <<"-", r, ".", "0.00">>}
    /\ \E r \in outerEdges :
          /\ Len(edges[r].laneSections) = 2
          /\ EdgesOf(r) = {<<r, ".", "0.00">>, <<"-", r, ".", "0.00">>,
                           <<r, ".", "2.00">>, <<"-", r, ".", "2.00">>}

\* C6 (as stated): a road with exactly one lane section at emission and
\* distinct from/to nodes yields edges named <roadId> and -<roadId>; the
\* suffix appears only with more than one section
C6_PlainNames ==
    \A id \in DOMAIN edgeCont :
        LET r == edgeCont[id].road
        IN  IF Len(edges[r].laneSections) = 1 /\ edges[r].from # edges[r].to
            THEN id \in {<<r>>, <<"-", r>>}
            ELSE \E k \in 1..Len(edges[r].laneSections) :
                    id \in {<<r, ".", toString(edges[r].laneSections[k].s)>>,
                            <<"-", r, ".", toString(edges[r].laneSections[k].s)>>}

\* the node at which the k-th lane section of road r starts
SectionStart(r, k) ==
    IF k = 1 THEN edges[r].from ELSE <<r, ".", toString(edges[r].laneSections[k].s)>>

\* the node at which the k-th lane section of road r ends
SectionEnd(r, k) ==
    IF k = Len(edges[r].laneSections) THEN edges[r].to ELSE SectionStart(r, k + 1)

\* C25: the edges of the right lanes of an outer road lead from the
\* from-node of the road over the nodes built at the start of each further
\* lane section to the to-node of the road, the edges of the left lanes lead
\* the other way, and a lane section has the edge of a side exactly if the
\* side has lanes
C25_EdgesChained ==
    \A r \in outerEdges :
        /\ Built(r) /\ pc # "error" =>
               \A k \in 1..Len(edges[r].laneSections) :
                   /\ RightEdgeID(r, k) \in DOMAIN edgeCont
                          <=> edges[r].laneSections[k].rightLaneNumber > 0
                   /\ LeftEdgeID(r, k) \in DOMAIN edgeCont
                          <=> edges[r].laneSections[k].leftLaneNumber > 0
                   /\ k > 1 => SectionStart(r, k) \in nodeCont
        /\ \A k \in 1..Len(edges[r].laneSections) :
               /\ RightEdgeID(r, k) \in EdgesOf(r) =>
                      /\ edgeCont[RightEdgeID(r, k)].from = SectionStart(r, k)
                      /\ edgeCont[RightEdgeID(r, k)].to = SectionEnd(r, k)
               /\ LeftEdgeID(r, k) \in EdgesOf(r) =>
                      /\ edgeCont[LeftEdgeID(r, k)].from = SectionEnd(r, k)
                      /\ edgeCont[LeftEdgeID(r, k)].to = SectionStart(r, k)
        /\ \A id \in EdgesOf(r) : \E k \in 1..Len(edges[r].laneSections) :
               id \in {RightEdgeID(r, k), LeftEdgeID(r, k)}

\* a road of two lane sections has the edges of both sides of both sections,
\* and another the edge of the right lanes alone
C25_Witness ==
    /\ pc = "done"
    /\ \E r \in outerEdges :
          /\ Len(edges[r].laneSections) = 2
          /\ Cardinality(EdgesOf(r)) = 4
          /\ edgeCont[RightEdgeID(r, 1)].to = <<r, ".", "2.00">>
          /\ edgeCont[LeftEdgeID(r, 2)].to = <<r, ".", "2.00">>
    /\ \E r \in outerEdges :
          /\ edges[r].laneSections[1].leftLaneNumber = 0
          /\ EdgesOf(r) = {RightEdgeID(r, 1)}

\* C26: no emitted edge starts and ends at the same node, also if the road
\* does
C26_NoSelfLoop ==
    \A id \in DOMAIN edgeCont : edgeCont[id].from # edgeCont[id].to

\* a road of one lane section that starts and ends at the same node was
\* split at half of its length and emitted
C26_Witness ==
    /\ pc = "done"
    /\ \E r \in outerEdges :
          /\ edges[r].from = edges[r].to
          /\ [kind |-> "split", a |-> r, b |-> ""] \in warnings
          /\ Len(edges[r].laneSections) = 2
          /\ edges[r].laneSections[2].s = edges[r].length \div 2
          /\ RightEdgeID(r, 1) \in EdgesOf(r) /\ RightEdgeID(r, 2) \in EdgesOf(r)
          /\ edgeCont[RightEdgeID(r, 1)].from = edgeCont[RightEdgeID(r, 2)].to

-----------------------------------------------------------------------------
(* Properties of the lane-to-lane connections *)

\* the pairs of lane indices connected from edge f to edge t
EmittedPairs(f, t) == {<<x.fromLane, x.toLane>> : x \in {y \in l2l : y.from = f /\ y.to = t}}

\* lane k of the list continues a lane of section A that is in A's lane map
Continues(A, B, lanes, k) ==
    /\ MapHas(B.laneMap, lanes[k].id)
    /\ lanes[k].predecessor # UNSET_CONNECTION
    /\ MapHas(A.laneMap, lanes[k].predecessor)

\* the continuations of the right side: of several lanes of B with the same
\* predecessor the first of the list has it
RightContinuations(A, B) ==
    {<<A.laneMap[B.right[k].predecessor], B.laneMap[B.right[k].id]>> :
        k \in {j \in 1..Len(B.right) :
                  /\ Continues(A, B, B.right, j)
                  /\ \A i \in 1..(j - 1) :
                        Continues(A, B, B.right, i) =>
                            A.laneMap[B.right[i].predecessor] # A.laneMap[B.right[j].predecessor]}}

\* the continuations of the left side lead from B to A
LeftContinuations(A, B) ==
    {<<B.laneMap[B.left[k].id], A.laneMap[B.left[k].predecessor]>> :
        k \in {j \in 1..Len(B.left) : Continues(A, B, B.left, j)}}

\* the adjacent lane sections k, k + 1 of built roads
AdjacentSections ==
    {p \in outerEdges \X (1..3) : Built(p[1]) /\ p[2] < Len(edges[p[1]].laneSections)}

\* C5 (as the code has it): between adjacent lane sections A, B of an outer
\* road whose edges of a side were emitted for both, a continuation is
\* emitted for exactly the lanes of B that are in B's lane map and whose
\* predecessor is set and in A's lane map; on the right side it leads from
\* the predecessor to the lane (one continuation for each lane of A), on
\* the left side from the lane to its predecessor
C5_ContinuationByPredecessor ==
    \A p \in AdjacentSections :
        LET r == p[1]
            A == edges[r].laneSections[p[2]]
            B == edges[r].laneSections[p[2] + 1]
        IN  /\ A.rightLaneNumber > 0 /\ B.rightLaneNumber > 0 =>
                EmittedPairs(RightEdgeID(r, p[2]), RightEdgeID(r, p[2] + 1))
                    = RightContinuations(A, B)
            /\ A.leftLaneNumber > 0 /\ B.leftLaneNumber > 0 =>
                EmittedPairs(LeftEdgeID(r, p[2] + 1), LeftEdgeID(r, p[2]))
                    = LeftContinuations(A, B)

\* a lane of B without predecessor is the successor of a lane of A, and another
\* lane of B continues a lane of A
C5_Witness ==
    /\ pc = "done"
    /\ \E p \in AdjacentSections :
          LET A == edges[p[1]].laneSections[p[2]]
              B == edges[p[1]].laneSections[p[2] + 1]
          IN  /\ A.rightLaneNumber = 2 /\ B.rightLaneNumber = 2
              /\ Cardinality(RightContinuations(A, B)) = 1
              /\ \E a \in 1..2, b \in 1..2 :
                    /\ A.right[a].successor = B.right[b].id
                    /\ B.right[b].predecessor = UNSET_CONNECTION

\* the continuations by the successors of the lanes of A
SuccessorPairs(A, B, lanes) ==
    {<<A.laneMap[lanes[k].id], B.laneMap[lanes[k].successor]>> :
        k \in {j \in 1..Len(lanes) :
                  /\ MapHas(A.laneMap, lanes[j].id)
                  /\ lanes[j].successor # UNSET_CONNECTION
                  /\ MapHas(B.laneMap, lanes[j].successor)}}

\* C5 (as stated): a continuation from a lane of A to a lane of B is emitted
\* if and only if the successor of the lane of A is in B's lane map
C5_ContinuationBySuccessor ==
    \A p \in AdjacentSections :
        LET r == p[1]
            A == edges[r].laneSections[p[2]]
            B == edges[r].laneSections[p[2] + 1]
        IN  /\ A.rightLaneNumber > 0 /\ B.rightLaneNumber > 0 =>
                EmittedPairs(RightEdgeID(r, p[2]), RightEdgeID(r, p[2] + 1))
                    = SuccessorPairs(A, B, A.right)
            /\ A.leftLaneNumber > 0 /\ B.leftLaneNumber > 0 =>
                EmittedPairs(LeftEdgeID(r, p[2] + 1), LeftEdgeID(r, p[2]))
                    = {<<q[2], q[1]>> : q \in SuccessorPairs(A, B, A.left)}

\* C2: the edges of every lane-to-lane connection added to an output edge are
\* in the edge container, and its lane indices are at least 0 and below the
\* lane counts of these edges
C2_ConnectionsInBounds ==
    \A x \in l2l :
        /\ x.from \in DOMAIN edgeCont /\ x.to \in DOMAIN edgeCont
        /\ 0 <= x.fromLane /\ x.fromLane < edgeCont[x.from].numLanes
        /\ 0 <= x.toLane /\ x.toLane < edgeCont[x.to].numLanes

\* a connection of lane 0 for all lanes and a connection from a lane that is
\* not in the lane map were both added
C2_Witness ==
    /\ pc = "done"
    /\ \E k \in 1..Len(connections2) :
          /\ connections2[k].all
          /\ \E x \in l2l : /\ x.type = "L2L_USER"
                              /\ x.from = <<"A", ".", "0.00">> /\ x.fromLane = 0
    /\ \E k \in 1..Len(connections2) :
          /\ connections2[k].fromLane = -3
          /\ \E x \in l2l : /\ x.type = "L2L_USER"
                              /\ x.from = <<"-", "A", ".", "2.00">> /\ x.fromLane = 0

-----------------------------------------------------------------------------
(* Properties of the junction chain outer A -> inner X -> outer B *)

\* the positions in connections2 of the connections from a right lane at the
\* end of A over X to a right lane at the start of B
Through(A, X, B) ==
    {k \in 1..Len(connections2) :
        LET c == connections2[k]
        IN  /\ c.fromEdge = A /\ c.toEdge = B /\ c.chain = <<X>>
            /\ c.fromCP = OPENDRIVE_CP_END /\ c.fromLane < 0
            /\ c.toCP = OPENDRIVE_CP_START /\ c.toLane < 0}

\* the lanes (of A, into X, out of X, of B) that are connected over X
ConnectedLanes(A, X, B) ==
    {<<c1.fromLane, c1.toLane, c2.fromLane, c2.toLane>> :
        c1 \in {c \in edges[A].connections :
                   /\ c.toEdge = X /\ c.fromCP = OPENDRIVE_CP_END /\ c.fromLane < 0},
        c2 \in {c \in edges[X].connections :
                   /\ c.toEdge = B /\ c.toCP = OPENDRIVE_CP_START /\ c.toLane < 0}}

\* the connection at position k goes from the right edge of the last lane
\* section of A to the right edge of the first lane section of B
LastToFirst(A, B, k) ==
    LET c == connections2[k]
        from == RightEdgeID(A, Len(edges[A].laneSections))
        to == RightEdgeID(B, 1)
        fromMap == edges[A].laneSections[Len(edges[A].laneSections)].laneMap
        toMap == edges[B].laneSections[1].laneMap
    IN  from \in DOMAIN edgeCont /\ to \in DOMAIN edgeCont =>
            \E x \in l2l :
                /\ x.from = from /\ x.to = to /\ x.type = "L2L_USER"
                /\ x.fromLane = (IF MapHas(fromMap, c.fromLane) THEN fromMap[c.fromLane] ELSE 0)
                /\ x.toLane = (IF MapHas(toMap, c.toLane) THEN toMap[c.toLane] ELSE 0)
                /\ x.origID = c.origID

\* what C10 says of each connection over X and of the lanes connected over X
ChainEmitted(A, X, B) ==
    /\ \A k \in Through(A, X, B) :
          /\ connections2[k].origID = X
          /\ LastToFirst(A, B, k)
    /\ \A q \in ConnectedLanes(A, X, B) :
          laneSectionsConnected(edges[X], q[2], q[3]) =>
              \E k \in Through(A, X, B) :
                  /\ connections2[k].fromLane = q[1] /\ connections2[k].toLane = q[4]
                  /\ connections2[k].origLane = q[2]

\* C10 (as the code has it): in a chain outer A -> inner X -> outer B left at
\* the end of A on a right lane and entered at the start of B on a right
\* lane, exactly one connection is emitted for each lane of A, lane of X it
\* leads to and lane of B connected over X; it goes from the right edge of
\* A's last lane section to the right edge of B's first lane section and
\* has X as original id
C10_OnePerLaneTriple ==
    pc = "done" =>
        \A A \in outerEdges, B \in outerEdges, X \in innerEdges :
            /\ ChainEmitted(A, X, B)
            /\ \A k \in Through(A, X, B), j \in Through(A, X, B) :
                  /\ connections2[k].fromLane = connections2[j].fromLane
                  /\ connections2[k].origLane = connections2[j].origLane
                  /\ connections2[k].toLane = connections2[j].toLane
                  => k = j

\* the laneLink of the junction and the predecessor link of X gave the same
\* connection, and the one connection over X was added to the edges
C10_Witness ==
    /\ pc = "done"
    /\ Cardinality(Through("A", "X", "B")) >= 1
    /\ \E c \in edges["A"].connections :
          /\ c.toEdge = "X" /\ c.fromLane = -1 /\ c.toLane = -1
          /\ \E x \in Range(edges["X"].laneSections[1].right) :
                x.id = -1 /\ x.predecessor = -1
    /\ \E x \in l2l : /\ x.from = <<"-", "A", ".", "2.00">>
                        /\ x.to = <<"-", "B", ".", "0.00">>
                        /\ x.origID = "X"

\* C10 (as stated): exactly one connection is emitted for each connected pair
\* of a lane of A and a lane of B
C10_OnePerLanePair ==
    pc = "done" =>
        \A A \in outerEdges, B \in outerEdges, X \in innerEdges :
            /\ ChainEmitted(A, X, B)
            /\ \A k \in Through(A, X, B), j \in Through(A, X, B) :
                  /\ connections2[k].fromLane = connections2[j].fromLane
                  /\ connections2[k].toLane = connections2[j].toLane
                  => k = j

-----------------------------------------------------------------------------
(* Properties of setLaneAttributes *)

\* C7 (as the code has it): a lane written by setLaneAttributes carries the
\* permissions Emergency|Authority exactly if its type permits passenger
\* vehicles and the width selected for it, before rounding and clamping, is
\* below opendrive.min-width and below the width of its type; every other
\* lane keeps the permissions of its type, whatever its final width
C7_DowngradeBySelectedWidth ==
    pc = "laneset" =>
        IF /\ SVC_PASSENGER \in lane.tcPermissions
           /\ lane.myImportWidths /\ lane.odWidth # UNSPECIFIED_WIDTH
           /\ lane.odWidth < lane.myMinWidth
           /\ lane.odWidth < lane.tcWidth
        THEN lane.permissions = {SVC_EMERGENCY, SVC_AUTHORITY}
        ELSE lane.permissions = lane.tcPermissions

\* a lane narrowed by its own width was downgraded; its rounded width was
\* taken back by one step of the resolution
C7_Witness ==
    /\ pc = "laneset"
    /\ lane.myMinWidth = 180 /\ lane.odWidth = 176 /\ lane.widthResolution = 10
    /\ lane.myImportWidths /\ lane.maxWidth = 0
    /\ lane.width = 170
    /\ lane.permissions = {SVC_EMERGENCY, SVC_AUTHORITY}

\* C7 (as stated): with opendrive.min-width > 0, every lane whose type
\* permits passenger vehicles and whose final width is below
\* opendrive.min-width carries exactly the permissions Emergency|Authority
C7_NarrowIsDowngraded ==
    /\ pc = "laneset" /\ lane.myMinWidth > 0
    /\ SVC_PASSENGER \in lane.tcPermissions
    /\ lane.width < lane.myMinWidth
    => lane.permissions = {SVC_EMERGENCY, SVC_AUTHORITY}

-----------------------------------------------------------------------------
(* Properties of revisitLaneSections *)

\* how often x is in the sequence
Count(seq, x) == Cardinality({k \in 1..Len(seq) : seq[k] = x})

\* C4: after revisitLaneSections the s of the lane sections of an outer road
\* are strictly increasing and those of an inner road do not decrease; an
\* inner road keeps all its sections, an outer road all but sections whose s
\* is closer than POSITION_EPS to that of another of its sections
C4_SectionsOrdered ==
    pc = "revisited" =>
        /\ \A k \in 2..Len(ls) :
              IF lsInner THEN ls[k - 1].s <= ls[k].s ELSE ls[k - 1].s < ls[k].s
        /\ \A x \in Range(SplitBySpeed(lsIn, 1)) \cup Range(ls) :
              /\ Count(ls, x) <= Count(SplitBySpeed(lsIn, 1), x)
              /\ Count(ls, x) < Count(SplitBySpeed(lsIn, 1), x) =>
                    /\ ~lsInner
                    /\ Cardinality({k \in 1..Len(SplitBySpeed(lsIn, 1)) :
                           Abs(SplitBySpeed(lsIn, 1)[k].s - x.s) < POSITION_EPS}) >= 2

\* the sections of an outer road were read out of order and with two s
\* closer than POSITION_EPS; they were sorted and one was removed
C4_Witness ==
    /\ pc = "revisited" /\ ~lsInner
    /\ \E k \in 2..Len(lsIn) : lsIn[k].s < lsIn[k - 1].s
    /\ \E k \in 1..Len(lsIn), j \in 1..Len(lsIn) : lsIn[k].s = lsIn[j].s + 5
    /\ Len(ls) >= 2
    /\ Len(ls) < Len(SplitBySpeed(lsIn, 1))

-----------------------------------------------------------------------------
(* Properties of setNodeSecure and the node building *)

\* the endpoint of road e that a link of type lt names
Endpoint(e, lt) == IF lt = OPENDRIVE_LT_SUCCESSOR THEN e.to ELSE e.from

\* the node a link of an outer road asks for in build nodes#1 and #2
LinkNode(r, l) ==
    IF l.elementType # OPENDRIVE_ET_ROAD THEN <<l.elementID>>
    ELSE IF InJunction(edges, l.elementID) THEN <<edges[l.elementID].junction>>
    ELSE JoinedNodeID(r, l.elementID)

\* C11: no step rebinds a bound endpoint of an outer road; setNodeSecure
\* throws exactly if the node is not in the node container or the endpoint is
\* bound to another node, and then changes nothing, else it binds the endpoint
\* and leaves the other one; node phases 1 and 2 that do not throw leave every
\* endpoint at the node its links name
C11_NeverRebinds ==
    [][/\ \A r \in outerEdges :
             /\ edges[r].from # NULL => edges'[r].from = edges[r].from
             /\ edges[r].to # NULL => edges'[r].to = edges[r].to
       /\ pc = "setnode" =>
             LET other == IF args.lt = OPENDRIVE_LT_SUCCESSOR
                          THEN OPENDRIVE_LT_PREDECESSOR ELSE OPENDRIVE_LT_SUCCESSOR
                 bound == Endpoint(edges["A"], args.lt)
             IN  /\ result'.threw <=> \/ args.nodeID \notin nodeCont
                                      \/ bound # NULL /\ bound # args.nodeID
                 /\ result'.threw => edges' = edges
                 /\ ~result'.threw =>
                       /\ Endpoint(edges'["A"], args.lt) = args.nodeID
                       /\ Endpoint(edges'["A"], other) = Endpoint(edges["A"], other)
       /\ pc \in {"nodes1", "nodes2"} /\ pc' # "error" =>
             \A r \in outerEdges : \A k \in 1..Len(edges[r].links) :
                LET l == edges[r].links[k]
                IN  (pc = "nodes2" \/ l.elementType # OPENDRIVE_ET_ROAD
                        \/ InJunction(edges, l.elementID))
                    => Endpoint(edges'[r], l.linkType) = LinkNode(r, l)
      ]_vars

\* loadNetwork was aborted in build nodes#3: the inner road X names junction J
\* for the end of road A, which a link of A had bound to another node
C11_Witness ==
    /\ pc = "error" /\ args = <<>>
    /\ "X" \in innerEdges /\ <<"J">> \in nodeCont
    /\ edges["A"].to \notin {NULL, <<"J">>}
    /\ \E k \in 1..Len(edges["X"].links) :
          /\ edges["X"].links[k].elementID = "A"
          /\ edges["X"].links[k].contactPoint = OPENDRIVE_CP_END

\* the nodes that the links of outer road r and the links of the inner roads
\* to r name for the endpoint of r that a link of type lt names
NamedNodes(r, lt) ==
    {LinkNode(r, edges[r].links[k]) :
        k \in {j \in 1..Len(edges[r].links) : edges[r].links[j].linkType = lt}}
    \cup {<<edges[ie].junction>> :
            ie \in {x \in innerEdges :
                      \E k \in 1..Len(edges[x].links) :
                         /\ edges[x].links[k].elementType = OPENDRIVE_ET_ROAD
                         /\ edges[x].links[k].elementID = r
                         /\ (edges[x].links[k].contactPoint = OPENDRIVE_CP_START)
                               <=> (lt = OPENDRIVE_LT_PREDECESSOR)}}

\* no endpoint of an outer road is named two nodes
NoTopologyConflict ==
    \A r \in outerEdges : \A lt \in {OPENDRIVE_LT_SUCCESSOR, OPENDRIVE_LT_PREDECESSOR} :
        Cardinality(NamedNodes(r, lt)) <= 1

\* C12: an outer road with less than two vertices does not abort loadNetwork
\* whatever its links (topology conflicts apart): it is ignored with a warning
\* and yields no edge, and the other outer roads get their edges
C12_MalformedRoadSkipped ==
    \A r \in outerEdges :
        Len(edges[r].geom) < 2 /\ NoTopologyConflict =>
            /\ pc # "error"
            /\ pc = "done" =>
                  /\ EdgesOf(r) = {}
                  /\ [kind |-> "nogeom", a |-> r, b |-> ""] \in warnings
                  /\ \A o \in outerEdges : Len(edges[o].geom) >= 2 => EdgesOf(o) # {}

\* the endpoint of road e that a link with contact point cp leads to
ContactEndpoint(e, cp) == IF cp = OPENDRIVE_CP_START THEN e.from ELSE e.to

\* C23: after build nodes#2, for every link of an outer road r to an outer
\* road, the linked endpoint of r and the endpoint of the other road at the
\* contact point of the link are bound to the node named after both roads
C23_BothEndpointsJoined ==
    pc = "nodes3" =>
        \A r \in outerEdges : \A k \in 1..Len(edges[r].links) :
            LET l == edges[r].links[k]
            IN  l.elementType = OPENDRIVE_ET_ROAD /\ l.elementID \in outerEdges =>
                    /\ JoinedNodeID(r, l.elementID) \in nodeCont
                    /\ Endpoint(edges[r], l.linkType) = JoinedNodeID(r, l.elementID)
                    /\ ContactEndpoint(edges[l.elementID], l.contactPoint)
                           = JoinedNodeID(r, l.elementID)

\* the junctions of the inner roads with a link to road r at contact point cp
InnerJunctionsAt(r, cp) ==
    {<<edges[ie].junction>> :
        ie \in {x \in innerEdges :
                  \E k \in 1..Len(edges[x].links) :
                     /\ edges[x].links[k].elementType = OPENDRIVE_ET_ROAD
                     /\ edges[x].links[k].elementID = r
                     /\ edges[x].links[k].contactPoint = cp}}

\* C24: build nodes#3, unless it throws, leaves the outer roads with both
\* nodes bound as they are; of every other outer road it binds the from-node
\* to the junction of each inner road with a link to the road at contact
\* point Start and the to-node to that of each inner road with a link to it
\* at contact point End, and leaves an endpoint without such a link alone
C24_InnerLinksBind ==
    [][pc = "nodes3" /\ pc' = "nodes4" =>
          \A r \in outerEdges :
              IF edges[r].from # NULL /\ edges[r].to # NULL THEN edges'[r] = edges[r]
              ELSE /\ \A n \in InnerJunctionsAt(r, OPENDRIVE_CP_START) : edges'[r].from = n
                   /\ \A n \in InnerJunctionsAt(r, OPENDRIVE_CP_END) : edges'[r].to = n
                   /\ InnerJunctionsAt(r, OPENDRIVE_CP_START) = {} =>
                          edges'[r].from = edges[r].from
                   /\ InnerJunctionsAt(r, OPENDRIVE_CP_END) = {} =>
                          edges'[r].to = edges[r].to]_vars

\* roads A and B have no links; the inner road X has bound the to-node of A
\* and the from-node of B to its junction
C24_Witness ==
    /\ pc = "nodes4"
    /\ {"A", "B"} \subseteq outerEdges
    /\ edges["A"].links = <<>> /\ edges["B"].links = <<>>
    /\ InnerJunctionsAt("A", OPENDRIVE_CP_END) = {<<"J">>}
    /\ InnerJunctionsAt("B", OPENDRIVE_CP_START) = {<<"J">>}
    /\ edges["A"].to = <<"J">> /\ edges["A"].from = NULL
    /\ edges["B"].from = <<"J">> /\ edges["B"].to = NULL

-----------------------------------------------------------------------------
(* Properties of laneSectionsConnected *)

\* the lanes of both sides of a lane section
LanesOf(sec) == Range(sec.right) \cup Range(sec.left)

\* one successor step at a lane section: the successor of the lane that
\* carries the id, the id itself if no lane carries it
SuccessorStep(sec, id) ==
    IF \E l \in LanesOf(sec) : l.id = id
    THEN (CHOOSE l \in LanesOf(sec) : l.id = id).successor
    ELSE id

\* one successor step at each of the lane sections k .. n-1
RECURSIVE SuccessorSteps(_, _, _)
SuccessorSteps(secs, k, id) ==
    IF k >= Len(secs) THEN id
    ELSE SuccessorSteps(secs, k + 1, SuccessorStep(secs[k], id))

\* C13: on a road of two or more lane sections laneSectionsConnected returns
\* true iff out is the lane id that in becomes by exactly one successor step
\* at each lane section but the last
C13_OneStepPerSection ==
    pc = "returned" /\ "in" \in DOMAIN args /\ Len(args.edge.laneSections) >= 2 =>
        (result.value <=> SuccessorSteps(args.edge.laneSections, 1, args.in) = args.out)

-----------------------------------------------------------------------------
(* Properties of getInnerConnections *)

\* a std::map<int, int> as the set of its pairs
PairsOf(map) == {<<k, map[k]>> : k \in DOMAIN map}

\* the lanes of a direction of cur that are in its lane map and whose
\* predecessor is set and in the lane map of prev
Continued(cur, isLeft, prev) ==
    {l \in Range(IF isLeft THEN cur.left ELSE cur.right) :
        /\ MapHas(cur.laneMap, l.id)
        /\ l.predecessor # UNSET_CONNECTION
        /\ MapHas(prev.laneMap, l.predecessor)}

\* C17: getInnerConnections returns a pair for every lane of the current
\* section that is in the lane map and whose predecessor is set and in the
\* lane map of prev: (prev index, current index) on the right side, (current
\* index, prev index) on the left side
C17_PairForEveryLane ==
    pc = "returned" /\ "cur" \in DOMAIN args =>
        PairsOf(result.value) =
            {IF args.isLeft
             THEN <<args.cur.laneMap[l.id], args.prev.laneMap[l.predecessor]>>
             ELSE <<args.prev.laneMap[l.predecessor], args.cur.laneMap[l.id]>> :
                l \in Continued(args.cur, args.isLeft, args.prev)}

-----------------------------------------------------------------------------
(* Properties of the lane sections split by speed changes *)

\* C18: for an inner road whose one lane section was split by speed changes,
\* laneSectionsConnected answers as for the road as read: in = out
C18_SplitKeepsConnected ==
    pc = "returned" /\ args # <<>> /\ args.fn = "laneSectionsConnected" =>
        /\ result.value = laneSectionsConnected([laneSections |-> lsIn], args.in, args.out)
        /\ result.value <=> (args.in = args.out)

\* C19: between two consecutive lane sections cloned from one lane section
\* by the speed split, getInnerConnections maps every lane index of either
\* side to itself
C19_StraightAcrossSpeedSplit ==
    pc = "returned" /\ args # <<>> /\ args.fn = "getInnerConnections" =>
        \A k \in 1..Len(result.value) :
            /\ PairsOf(result.value[k].right) = {<<n, n>> : n \in 0..(ls[k].rightLaneNumber - 1)}
            /\ PairsOf(result.value[k].left) = {<<n, n>> : n \in 0..(ls[k].leftLaneNumber - 1)}

-----------------------------------------------------------------------------
(* Properties of splitMinWidths *)

\* the k-th new lane section was inserted at a split position
Inserted(k) == result.from[k].inserted

\* the lane section the k-th new lane section is a copy of
ClonedFrom(k) == result.edge.laneSections[result.from[k].section]

IdentityOn(n) == {<<x, x>> : x \in 0..(n - 1)}

\* the lane sections are those of the cloned section in all but s and the
\* predecessors of the lanes, and continue the section before them straight
StraightCopy(k) ==
    LET new == result.laneSections[k]
        old == ClonedFrom(k)
    IN  /\ PairsOf(getInnerConnections(new, FALSE, result.laneSections[k - 1]))
               = IdentityOn(new.rightLaneNumber)
        /\ PairsOf(getInnerConnections(new, TRUE, result.laneSections[k - 1]))
               = IdentityOn(new.leftLaneNumber)
        /\ new.laneMap = old.laneMap
        /\ new.rightLaneNumber = old.rightLaneNumber
        /\ new.leftLaneNumber = old.leftLaneNumber
        /\ Len(new.right) = Len(old.right) /\ Len(new.left) = Len(old.left)
        /\ \A n \in 1..Len(new.right) : /\ new.right[n].id = old.right[n].id
                                         /\ new.right[n].successor = old.right[n].successor
        /\ \A n \in 1..Len(new.left) : /\ new.left[n].id = old.left[n].id
                                        /\ new.left[n].successor = old.left[n].successor

\* C20 as stated: in every inserted lane section the predecessor of each
\* lane is the id of the lane, getInnerConnections with the section before
\* is the identity on both sides, and ids, lane map, lane numbers and
\* successors are those of the cloned section
C20_StraightAtWidthSplit ==
    pc = "returned" /\ "from" \in DOMAIN result =>
        \A k \in 1..Len(result.laneSections) : Inserted(k) =>
            /\ \A n \in 1..Len(result.laneSections[k].right) :
                   result.laneSections[k].right[n].predecessor = result.laneSections[k].right[n].id
            /\ \A n \in 1..Len(result.laneSections[k].left) :
                   result.laneSections[k].left[n].predecessor = result.laneSections[k].left[n].id
            /\ StraightCopy(k)

\* C20: in every inserted lane section the predecessor of each lane of a
\* side that has a lane in the lane map is the id of the lane,
\* getInnerConnections with the section before is the identity on both
\* sides, and ids, lane map, lane numbers and successors are those of the
\* cloned section
C20_StraightAtWidthSplitOfMappedSides ==
    pc = "returned" /\ "from" \in DOMAIN result =>
        \A k \in 1..Len(result.laneSections) : Inserted(k) =>
            /\ result.laneSections[k].rightLaneNumber > 0 =>
                   \A n \in 1..Len(result.laneSections[k].right) :
                       result.laneSections[k].right[n].predecessor
                           = result.laneSections[k].right[n].id
            /\ result.laneSections[k].leftLaneNumber > 0 =>
                   \A n \in 1..Len(result.laneSections[k].left) :
                       result.laneSections[k].left[n].predecessor
                           = result.laneSections[k].left[n].id
            /\ StraightCopy(k)

\* a lane section was inserted whose lanes came with other predecessors
C20_Witness ==
    /\ pc = "returned" /\ "from" \in DOMAIN result
    /\ \E k \in 1..Len(result.laneSections) :
          /\ Inserted(k)
          /\ result.laneSections[k].rightLaneNumber = 2
          /\ result.laneSections[k].leftLaneNumber > 0
          /\ ClonedFrom(k).right[1].predecessor = -2
          /\ ClonedFrom(k).right[2].predecessor = UNSET_CONNECTION

-----------------------------------------------------------------------------
(* Properties of buildSpeedChanges *)

\* the speeds of the entries of a lane at an offset
SpeedsAt(l, o) == {l.speeds[n][2] : n \in {x \in 1..Len(l.speeds) : l.speeds[x][1] = o}}

\* the lane of the k-th produced section has the speed of its entry at the
\* offset of the section, or without one the speed of the lane before, or
\* in the first section the speed first
PropagatedSpeed(l, before, k, first) ==
    LET o == result.newSections[k].s - args.sec.s
    IN  IF SpeedsAt(l, o) # {} THEN l.speed \in SpeedsAt(l, o)
        ELSE IF k > 1 THEN l.speed = before.speed
             ELSE l.speed = first

\* C21: in every section produced by buildSpeedChanges the speed of a lane
\* is that of its entry at the offset of the section, without one that of
\* the same lane in the section before, and in the first section without
\* one the default speed of its type
C21_SpeedsPropagated ==
    pc = "returned" /\ "newSections" \in DOMAIN result =>
        \A k \in 1..Len(result.newSections) :
            /\ \A j \in 1..Len(result.newSections[k].right) :
                   PropagatedSpeed(result.newSections[k].right[j],
                                   result.newSections[IF k > 1 THEN k - 1 ELSE k].right[j], k,
                                   tcSpeed[result.newSections[k].right[j].type])
            /\ \A j \in 1..Len(result.newSections[k].left) :
                   PropagatedSpeed(result.newSections[k].left[j],
                                   result.newSections[IF k > 1 THEN k - 1 ELSE k].left[j], k,
                                   tcSpeed[result.newSections[k].left[j].type])

\* the offsets of the sections to produce
SplitOffsets == Increasing(speedChangePositions(args.sec) \cup {0})

\* without speed entries false is returned and nothing produced; with some
\* true is returned and a section for each offset produced, in order
SectionsPerOffset ==
    IF speedChangePositions(args.sec) = {}
    THEN ~result.value /\ result.newSections = <<>>
    ELSE /\ result.value
         /\ Len(result.newSections) = Len(SplitOffsets)
         /\ \A k \in 1..Len(SplitOffsets) :
                result.newSections[k].s = args.sec.s + SplitOffsets[k]

\* C22 as stated: a section for each offset of O and 0, in increasing
\* order, and true is returned only if more than one section is produced
C22_TrueOnlyIfSplit ==
    pc = "returned" /\ "newSections" \in DOMAIN result =>
        /\ SectionsPerOffset
        /\ result.value => Len(result.newSections) > 1

\* C22: false and no section without speed entries; otherwise true and a
\* section for each offset of O and 0, in increasing order, one section
\* if 0 is the only offset
C22_TrueIfEntries ==
    pc = "returned" /\ "newSections" \in DOMAIN result =>
        /\ SectionsPerOffset
        /\ result.value <=> speedChangePositions(args.sec) # {}
        /\ Len(result.newSections) = 1 <=> speedChangePositions(args.sec) = {0}

\* entries at 50 m and 100 m and none at 0: three sections
C22_Witness ==
    /\ pc = "returned" /\ "newSections" \in DOMAIN result
    /\ speedChangePositions(args.sec) = {5000, 10000}
    /\ args.sec.s = 2000
    /\ Len(result.newSections) = 3

\* C27: the lane sections of an outer road that edges are built over, after
\* the split of a road between the same nodes and after splitMinWidths, have
\* strictly increasing s, whatever the road length and the minimum distance
\* of the splits
C27_SectionsStayIncreasing ==
    pc = "returned" /\ "from" \in DOMAIN result =>
        \A k \in 2..Len(result.laneSections) :
            result.laneSections[k - 1].s < result.laneSections[k].s

-----------------------------------------------------------------------------
(* Properties of buildLaneMapping *)

\* the places in the lane list of the lanes that are to be kept
KeptPlaces(lanes) ==
    {k \in 1..Len(lanes) :
        myImportAllTypes \/ (lanes[k].type \in tcKnown /\ lanes[k].type \notin tcDiscard)}

\* the lanes kept are exactly those of the kept places, and their number is n
KeptAreMapped(lanes, n) ==
    /\ n = Cardinality(KeptPlaces(lanes))
    /\ \A k \in 1..Len(lanes) :
           lanes[k].id \in DOMAIN result.section.laneMap <=> k \in KeptPlaces(lanes)

\* the kept lanes have the indices 0, 1, ... in the order of the list
IndexedForward(lanes) ==
    \A k \in KeptPlaces(lanes) :
        result.section.laneMap[lanes[k].id] = Cardinality({j \in KeptPlaces(lanes) : j < k})

\* the kept lanes have the indices 0, 1, ... in the order of the list from
\* its end
IndexedBackward(lanes) ==
    \A k \in KeptPlaces(lanes) :
        result.section.laneMap[lanes[k].id] = Cardinality({j \in KeptPlaces(lanes) : j > k})

\* C28 as stated: with the lanes of each side stored from the centre
\* outward, the kept lanes of the right side and those of the left side have
\* the indices 0, 1, ... from the centre outward; the lanes kept are those of
\* a known type that is not discarded, or all; their numbers are recorded
C28_IndicesFromCentre ==
    pc = "returned" /\ "section" \in DOMAIN result =>
        /\ KeptAreMapped(args.right, result.section.rightLaneNumber)
        /\ KeptAreMapped(args.left, result.section.leftLaneNumber)
        /\ IndexedForward(args.right)
        /\ IndexedForward(args.left)

\* C28: the kept lanes of the right side have the indices 0, 1, ... from the
\* end of the stored list on (the outermost lane first if the list is stored
\* from the centre outward), those of the left side from the start of the
\* list on; the lanes kept are those of a known type that is not discarded,
\* or all; their numbers are recorded and no other lane is in the lane map
C28_RightIndicesFromEnd ==
    pc = "returned" /\ "section" \in DOMAIN result =>
        /\ KeptAreMapped(args.right, result.section.rightLaneNumber)
        /\ KeptAreMapped(args.left, result.section.leftLaneNumber)
        /\ IndexedBackward(args.right)
        /\ IndexedForward(args.left)
        /\ DOMAIN result.section.laneMap
               \subseteq {args.right[k].id : k \in 1..Len(args.right)}
                          \cup {args.left[k].id : k \in 1..Len(args.left)}

\* three right lanes of which the second is dropped, and two left lanes
C28_Witness ==
    /\ pc = "returned" /\ "section" \in DOMAIN result
    /\ Len(args.right) = 3 /\ Len(args.left) = 2
    /\ result.section.rightLaneNumber = 2
    /\ result.section.leftLaneNumber = 2
    /\ -2 \notin DOMAIN result.section.laneMap
    /\ result.section.laneMap[-3] = 0 /\ result.section.laneMap[-1] = 1
    /\ result.section.laneMap[1] = 0 /\ result.section.laneMap[2] = 1

-----------------------------------------------------------------------------
(* Properties of the parser *)

\* the places of the connection elements of the document
ConnectionPlaces == {k \in 1..Len(args.events) : args.events[k].tag = "connection"}

\* the places of the laneLinks of the connection element at place k
LaneLinkPlaces(k) ==
    {n \in (k + 1)..Len(args.events) :
        /\ args.events[n].tag = "laneLink"
        /\ \A x \in (k + 1)..n : args.events[x].tag = "laneLink"}

\* the connections the connection element at place k stands for
ConnectionsOf(k) ==
    IF LaneLinkPlaces(k) = {}
    THEN {Connection(args.events[k].incomingRoad, 0, OPENDRIVE_CP_END,
                     args.events[k].connectingRoad, 0, args.events[k].contactPoint, TRUE)}
    ELSE {Connection(args.events[k].incomingRoad, args.events[n].from, OPENDRIVE_CP_END,
                     args.events[k].connectingRoad, args.events[n].to,
                     args.events[k].contactPoint, FALSE) : n \in LaneLinkPlaces(k)}

\* C29: at the end of the document every road of it has the connections of
\* the connection elements that name it as incoming road, wherever in the
\* document the junction is; connections of roads that are not in the
\* document are dropped
C29_OrderIndependent ==
    pc = "parsed" =>
        \A r \in DOMAIN edges :
            edges[r].connections
                = UNION {ConnectionsOf(k) :
                            k \in {x \in ConnectionPlaces : args.events[x].incomingRoad = r}}

-----------------------------------------------------------------------------
(* Properties of computeShapes *)

\* the projection cannot convert a vertex of the polyline of the road r
ProjectionFails(r) ==
    \E i \in 1..Len(polylineOf(r, args.geometries[r]).geom) :
        polylineOf(r, args.geometries[r]).geom[i] \in args.fails

\* C30: after computeShapes a road for which the projection fails has an
\* empty polyline and a warning, and no error is written; the polyline of
\* every other road is the projected polyline of its segments
C30_FailureDiscardsGeometry ==
    pc = "returned" =>
        /\ \A r \in Roads :
              IF ProjectionFails(r)
              THEN /\ edges[r].geom = <<>>
                   /\ \E w \in warnings : w.level = "warning" /\ w.kind = "project" /\ w.a = r
              ELSE edges[r].geom
                     = shapeOf(r, args.geometries[r], {}).geom
        /\ \A w \in warnings : w.level # "error"

=============================================================================
